---- MODULE Spec2Model ----
(***************************************************************************)
(* pythonning: the single-file cache (caching.FilesCache) and the chunked  *)
(* copy with progress callback built on it (filesystem._copying.copyfile). *)
(*                                                                         *)
(* Strings are sequences of tokens; a sha256 hex digest is the input with  *)
(* the token "sha256" in front (injective, fixed width in the code: 64 hex *)
(* characters, so one digest is never a proper prefix of another).  A      *)
(* directory listing is a sequence: glob/scandir return the entries in the *)
(* order the filesystem keeps them, and a new entry may land at any        *)
(* position of that order.                                                 *)
(***************************************************************************)
EXTENDS Integers, Sequences, FiniteSets, TLC

\* ------------------------------------------------------------------ bounds
MaxSize == 3      \* largest source file, in bytes
MaxChunk == 3     \* largest chunk_size passed to copyfile
MaxEntries == 2   \* entry directories the harness lets the cache root hold
MaxOps == 3       \* calls of one sequential run that change the cache
MaxCopyOps == 2   \* calls of one run of copyfile's caller
MaxDownloads == 2 \* calls of one run of download_file's caller
MaxRemovals == 2  \* calls of one run of rmtree's caller
RecursionLimit == 6 \* sys.getrecursionlimit(), scaled down; the tree is 3 deep
BlockSize == 2    \* blocksize of download_file, scaled down from 1024 * 8
MaxValue == 2     \* largest minimum, maximum and progress given to a ProgressBar
Width == 4        \* width of the ProgressBar, scaled down from 32
MaxBarOps == 4    \* calls of one run of a ProgressBar's user
MaxMoves == 2     \* calls of one run of move_directory_content's caller

VARIABLES
    src,          \* the source files: path -> [content, mtime]
    is_windows,   \* os.name == "nt"
    cache,        \* the cache root of _COPYING_CACHE, and of a FilesCache under
                  \* test: [exists, entries (listing order)]
    download_cache, \* the cache root of _DOWNLOAD_CACHE
    mv,           \* two directories, source and target: relative path -> node,
                  \* what they were before the last call, and the copy made
    bar,          \* a ProgressBar: its attributes, and what its stream received
    web,          \* the servers: url -> revision of the body they send
    fetched,      \* url -> the bytes of the download that stored its cache
                  \* entry, since the download cache was last emptied
    tree,         \* a directory tree to remove: path -> [kind, writable]
    dstdir,       \* the destination directory: file name -> file
    cp,           \* copyfile in progress: its position and locals
    calls,        \* what the user callback received during the last copyfile
    cur,          \* the last operation called, its arguments and its outcome
    copied,       \* the (source, destination) of the copyfile(use_cache=True) calls
                  \* made for a free destination since the cache was last emptied
    nops,         \* operations started so far
    wr            \* concurrent cache_file callers: writer -> position and locals

vars == <<src, is_windows, mv, bar, web, fetched, download_cache, tree, cache, dstdir, cp, calls, cur, copied, nops, wr>>

\* ------------------------------------------------------------- filesystem
SrcFiles == {<<"data", "render.jpg">>, <<"data", "render2.jpg">>}
DstNames == {"render.jpg", "render2.jpg", "render-copy1.jpg"}
DstDir == <<"dst01">>
Targets == {DstDir, <<"dst01", "render.jpg">>, <<"dst01", "render-copy1.jpg">>}
\* a file that is in the destination directory before any copy
Existing == [name |-> "render.jpg", content |-> <<99>>, meta |-> 7]

Tag(f) == IF f[2] = "render.jpg" THEN 1 ELSE 2
Bytes(f, n) == [i \in 1..n |-> 10 * Tag(f) + i]

NoFile == [name |-> "", content |-> <<>>, meta |-> -1]
None == <<>>

InsertAt(s, pos, e) == SubSeq(s, 1, pos - 1) \o <<e>> \o SubSeq(s, pos, Len(s))

SrcFile(f) == [name |-> f[2], content |-> src[f].content, meta |-> src[f].mtime]

\* the tree of test_rmtree: dst01 with render.jpg and dirA, dirA with
\* README.md and dirAA, dirAA with README.md
TreeRoot == <<"dst01">>
TreePaths ==
    {TreeRoot, <<"dst01", "render.jpg">>, <<"dst01", "dirA">>,
     <<"dst01", "dirA", "README.md">>, <<"dst01", "dirA", "dirAA">>,
     <<"dst01", "dirA", "dirAA", "README.md">>}
TreeFiles == {q \in TreePaths : q[Len(q)] \in {"render.jpg", "README.md"}}
NoNode == [kind |-> "none", writable |-> FALSE]

\* ----------------------------------------------------------------- hashing
sha256_hexdigest(s) == <<"sha256">> \o s

hash_str(string) == sha256_hexdigest(string)

\* the path alone, os.stat left out of the identifier
hash_file_path_only(f) == sha256_hexdigest(<<f[1], f[2]>>)

\* str(src_file) + repr(os.stat(src_file))
hash_file(f) ==
    sha256_hexdigest(<<f[1], f[2], ToString(Len(src[f].content)), ToString(src[f].mtime)>>)

UserIds == {<<"key1">>, <<"key2">>}
AllIds == UserIds \cup {hash_file(f) : f \in SrcFiles}

\* ------------------------------------------------------------- FilesCache
Suffixes == 1..MaxEntries

exists(c) == c.exists

is_empty(c) == IF ~exists(c) THEN TRUE ELSE c.entries = <<>>

\* glob("*"): the prefix left out of the pattern
MatchesAll(c, prefix) == c.entries

Matches(c, prefix) == SelectSeq(c.entries, LAMBDA e : e.name.prefix = prefix)

EntryIndex(c, dirname) == CHOOSE i \in 1..Len(c.entries) : c.entries[i].name = dirname

HasEntry(c, dirname) == \E i \in 1..Len(c.entries) : c.entries[i].name = dirname

FileAt(c, path) ==
    IF path = None \/ ~HasEntry(c, path[1]) THEN NoFile
    ELSE LET fs == SelectSeq(c.entries[EntryIndex(c, path[1])].files,
                             LAMBDA x : x.name = path[2])
         IN IF fs = <<>> THEN NoFile ELSE fs[1]

mkdir(c) == [c EXCEPT !.exists = TRUE]

mkdtemp(c, prefix, suffix, pos) ==
    [c EXCEPT !.entries =
        InsertAt(@, pos, [name |-> [prefix |-> prefix, suffix |-> suffix], files |-> <<>>])]

FileIndex(c, dirname, name) ==
    CHOOSE k \in 1..Len(c.entries[EntryIndex(c, dirname)].files) :
        c.entries[EntryIndex(c, dirname)].files[k].name = name

\* shutil.copy2 in the steps another process can observe: the destination is
\* opened (created empty), the bytes are written, the metadata is copied
copy2_open(c, file, dirname) ==
    [c EXCEPT !.entries[EntryIndex(c, dirname)].files =
        Append(@, [name |-> file.name, content |-> <<>>, meta |-> -1])]

copy2_write(c, file, dirname) ==
    [c EXCEPT !.entries[EntryIndex(c, dirname)].files[FileIndex(c, dirname, file.name)].content =
        file.content]

copy2_copystat(c, file, dirname) ==
    [c EXCEPT !.entries[EntryIndex(c, dirname)].files[FileIndex(c, dirname, file.name)].meta =
        file.meta]

\* nothing is copied into the directory
copy2_nothing(c, file, dirname) == c

\* shutil.copy: the bytes and not the metadata
copy2_without_stat(c, file, dirname) == copy2_write(copy2_open(c, file, dirname), file, dirname)

copy2(c, file, dirname) ==
    copy2_copystat(copy2_write(copy2_open(c, file, dirname), file, dirname), file, dirname)

\* the entry named by the digest of the file's name, not of unique_id
cache_file_cache_by_name(c, file, unique_id, suffix, pos) ==
    LET c1 == IF ~exists(c) THEN mkdir(c) ELSE c
        cache_prefix == hash_str(<<file.name>>)
        temp_folder == [prefix |-> cache_prefix, suffix |-> suffix]
        c2 == mkdtemp(c1, cache_prefix, suffix, pos)
    IN copy2(c2, file, temp_folder)

\* cache_file as one step: the cache afterwards, and what the call returns
cache_file_cache(c, file, unique_id, suffix, pos) ==
    LET c1 == IF ~exists(c) THEN mkdir(c) ELSE c
        cache_prefix == hash_str(unique_id)
        temp_folder == [prefix |-> cache_prefix, suffix |-> suffix]
        c2 == mkdtemp(c1, cache_prefix, suffix, pos)
    IN copy2(c2, file, temp_folder)

\* the entry directory returned instead of the file in it
cache_file_dir(file, unique_id, suffix) ==
    <<[prefix |-> hash_str(unique_id), suffix |-> suffix], "">>

cache_file_path(file, unique_id, suffix) ==
    <<[prefix |-> hash_str(unique_id), suffix |-> suffix], file.name>>

rmtree(c) == [exists |-> FALSE, entries |-> <<>>]

\* the entries removed, the root directory left
clear_keeps_root(c) == [c EXCEPT !.entries = <<>>]

clear(c) == IF ~exists(c) THEN c ELSE rmtree(c)

\* the last matching directory taken instead of the first
get_file_cache_last(c, unique_id) ==
    IF ~exists(c) THEN None
    ELSE LET cache_prefix == hash_str(unique_id)
             tempfolder == Matches(c, cache_prefix)
         IN IF tempfolder = <<>> THEN None
            ELSE LET cache_file == tempfolder[Len(tempfolder)].files
                 IN IF cache_file = <<>> THEN None
                    ELSE <<tempfolder[Len(tempfolder)].name, cache_file[1].name>>

\* a lookup that follows a lookup takes the last matching directory
get_file_cache_other_match(c, unique_id) ==
    IF ~exists(c) THEN None
    ELSE LET tempfolder == Matches(c, hash_str(unique_id))
             k == IF cur.op = "get_file_cache" THEN Len(tempfolder) ELSE 1
         IN IF tempfolder = <<>> THEN None
            ELSE IF tempfolder[k].files = <<>> THEN None
            ELSE <<tempfolder[k].name, tempfolder[k].files[1].name>>

get_file_cache(c, unique_id) ==
    IF ~exists(c) THEN None
    ELSE LET cache_prefix == hash_str(unique_id)
             tempfolder == Matches(c, cache_prefix)
         IN IF tempfolder = <<>> THEN None
            ELSE LET cache_file == tempfolder[1].files
                 IN IF cache_file = <<>> THEN None
                    ELSE <<tempfolder[1].name, cache_file[1].name>>

\* LOGGER.warning of get_file_cache: several directories match the prefix
get_file_cache_warns(c, unique_id) ==
    exists(c) /\ Len(Matches(c, hash_str(unique_id))) > 1

\* ---------------------------------------------------------------- history
NoPath == <<"", "">>

\* what a lookup remembers of the call made just before it
NoPrev == [op |-> "", id |-> <<>>, f |-> NoPath, ret |-> None, was_empty |-> TRUE,
           had_match |-> FALSE, entries |-> 0]

Op(op, id, f, ret, exc) ==
    [op |-> op, id |-> id, f |-> f, ret |-> ret, exc |-> exc,
     was_empty |-> is_empty(cache), had_match |-> FALSE,
     target_path |-> <<>>, chunk_size |-> 0, use_cache |-> FALSE, hit |-> FALSE,
     again |-> FALSE, entries |-> 0, target |-> "", dst_before |-> NoFile,
     deleted |-> FALSE, getenv |-> "unset", step_callback |-> FALSE,
     readonly |-> {}, ignore_errors |-> FALSE, opened |-> FALSE,
     amount |-> 0, new_maximum |-> None, run |-> 0, ended |-> FALSE,
     exists_ok |-> FALSE, recursive |-> FALSE, order |-> <<>>,
     callback |-> "callback", prev |-> NoPrev]

NoOp == [op |-> "", id |-> <<>>, f |-> NoPath, ret |-> None, exc |-> "",
         was_empty |-> TRUE, had_match |-> FALSE,
         target_path |-> <<>>, chunk_size |-> 0, use_cache |-> FALSE, hit |-> FALSE,
         again |-> FALSE, entries |-> 0, target |-> "", dst_before |-> NoFile,
     deleted |-> FALSE, getenv |-> "unset", step_callback |-> FALSE,
     readonly |-> {}, ignore_errors |-> FALSE, opened |-> FALSE,
     amount |-> 0, new_maximum |-> None, run |-> 0, ended |-> FALSE,
     exists_ok |-> FALSE, recursive |-> FALSE, order |-> <<>>,
     callback |-> "callback", prev |-> NoPrev]

Idle == [pc |-> "idle", src_meta |-> -1, fsrc |-> <<>>, file_size |-> 0,
         progress |-> 0, target |-> "", length |-> 0, new_callback |-> "callback",
         src_file |-> None, tempfolder |-> <<>>, blocknum |-> 0, use_cache |-> FALSE]

Urls == {<<"https:", "avatar">>, <<"https:", "stream">>}

\* the paths of movedircontent01 and movedircontent02, relative to the
\* directory; the kind of each is chosen when the directories are made
RelPaths == {<<"foo.py">>, <<"somedir">>, <<"somedir", "file.py">>, <<"somedir", "NEWFILE">>}

Absent == [kind |-> "none", content |-> <<>>]

EmptyDir == [p \in RelPaths |-> Absent]

NoDirs == [made |-> FALSE, src |-> EmptyDir, dst |-> EmptyDir,
           before |-> [src |-> EmptyDir, dst |-> EmptyDir], copy |-> EmptyDir]

\* no ProgressBar made yet; the stream is what was printed to it: the cursor
\* escape sequences, the number of new lines, the number of bar texts and the
\* last of them (each starts with a carriage return and rewrites the line)
NoBar == [made |-> FALSE, user_index |-> 0, user_min |-> 0, user_max |-> 0, width |-> 0,
          is_ended |-> FALSE, had_progress |-> FALSE, start_time |-> FALSE,
          hide_cursor |-> FALSE, is_cursor_visible |-> TRUE, update_number |-> 0,
          stream |-> [escapes |-> <<>>, newlines |-> 0, texts |-> 0, line |-> <<>>]]

Writers == {1, 2}
WIdle == [pc |-> "idle", f |-> NoPath, id |-> <<>>, temp_folder |-> <<>>, ret |-> None,
          exc |-> ""]

\* ------------------------------------------------------------------- Init
\* render.jpg has n bytes and render2.jpg MaxSize - n, so that every size of
\* 0..MaxSize is the size of either file in some run
Init ==
    /\ \E n \in 0..MaxSize :
         src = [f \in SrcFiles |->
                  [content |-> Bytes(f, IF Tag(f) = 1 THEN n ELSE MaxSize - n), mtime |-> Tag(f)]]
    /\ is_windows \in BOOLEAN
    /\ cache = [exists |-> FALSE, entries |-> <<>>]
    /\ download_cache = [exists |-> FALSE, entries |-> <<>>]
    /\ mv = NoDirs
    /\ bar = NoBar
    /\ web = [url \in Urls |-> 0]
    /\ fetched = [url \in Urls |-> None]
    /\ tree = [q \in TreePaths |->
                 [kind |-> IF q \in TreeFiles THEN "file" ELSE "dir", writable |-> TRUE]]
    /\ dstdir = [n \in DstNames |-> IF n = Existing.name THEN Existing ELSE NoFile]
    /\ cp = Idle
    /\ calls = <<>>
    /\ cur = NoOp
    /\ copied = {}
    /\ nops = 0
    /\ wr = [w \in Writers |-> WIdle]

CanStart == cp.pc = "idle" /\ nops < MaxOps

\* ------------------------------------------------------- cache operations
\* cache_file(f, unique_id) as one step of a sequential caller
DoCacheFile(f, unique_id) ==
    /\ \E suffix \in Suffixes, pos \in 1..(Len(cache.entries) + 1) :
         /\ ~HasEntry(cache, [prefix |-> hash_str(unique_id), suffix |-> suffix])
         /\ LET c == cache_file_cache(cache, SrcFile(f), unique_id, suffix, pos)
                p == cache_file_path(SrcFile(f), unique_id, suffix)
            IN /\ cache' = c
               /\ cur' = [Op("cache_file", unique_id, f, p,
                             IF FileAt(c, p) = NoFile THEN "RuntimeError" ELSE "ok")
                          EXCEPT !.had_match =
                              \E i \in 1..Len(cache.entries) :
                                  cache.entries[i].name.prefix = hash_str(unique_id)]
    /\ nops' = nops + 1
    /\ UNCHANGED <<src, is_windows, mv, bar, web, fetched, download_cache, tree, dstdir, cp, calls, copied, wr>>

CacheFile(f, unique_id) ==
    /\ CanStart
    /\ Len(cache.entries) < MaxEntries
    /\ DoCacheFile(f, unique_id)

GetFileCache(unique_id) ==
    /\ cp.pc = "idle"
    /\ cur' = [Op("get_file_cache", unique_id, NoPath, get_file_cache(cache, unique_id), "ok")
                EXCEPT !.prev = [op |-> cur.op, id |-> cur.id, f |-> cur.f, ret |-> cur.ret,
                                 was_empty |-> cur.was_empty, had_match |-> cur.had_match,
                                 entries |-> cur.entries]]
    /\ UNCHANGED <<src, is_windows, mv, bar, web, fetched, download_cache, tree, cache, dstdir, cp, calls, copied, nops, wr>>

Clear ==
    /\ CanStart
    /\ cache' = clear(cache)
    /\ cur' = [Op("clear", <<>>, NoPath, None, "ok") EXCEPT !.entries = Len(cache.entries)]
    /\ copied' = {}
    /\ nops' = nops + 1
    /\ UNCHANGED <<src, is_windows, mv, bar, web, fetched, download_cache, tree, dstdir, cp, calls, wr>>

\* the environment: the temporary location is wiped out of band
ExternalDeleteRoot ==
    /\ CanStart
    /\ exists(cache)
    /\ cache' = rmtree(cache)
    /\ cur' = [Op("external", <<>>, NoPath, None, "ok") EXCEPT !.entries = Len(cache.entries)]
    /\ copied' = {}
    /\ nops' = nops + 1
    /\ UNCHANGED <<src, is_windows, mv, bar, web, fetched, download_cache, tree, dstdir, cp, calls, wr>>

\* the environment: the files are wiped, the directories are left
ExternalWipeFiles ==
    /\ CanStart
    /\ \E i \in 1..Len(cache.entries) : cache.entries[i].files # <<>>
    /\ cache' = [cache EXCEPT !.entries =
                    [i \in 1..Len(@) |-> [@[i] EXCEPT !.files = <<>>]]]
    /\ cur' = [Op("external", <<>>, NoPath, None, "ok") EXCEPT !.entries = Len(cache.entries)]
    /\ copied' = {}
    /\ nops' = nops + 1
    /\ UNCHANGED <<src, is_windows, mv, bar, web, fetched, download_cache, tree, dstdir, cp, calls, wr>>

\* the environment: the entry directories are removed, the root is left
ExternalDeleteEntries ==
    /\ CanStart
    /\ cache.entries # <<>>
    /\ cache' = [cache EXCEPT !.entries = <<>>]
    /\ cur' = [Op("external", <<>>, NoPath, None, "ok") EXCEPT !.entries = Len(cache.entries)]
    /\ copied' = {}
    /\ nops' = nops + 1
    /\ UNCHANGED <<src, is_windows, mv, bar, web, fetched, download_cache, tree, dstdir, cp, calls, wr>>

\* ---------------------------------------------------------------- copyfile
Min(a, b) == IF a < b THEN a ELSE b

\* fsrc.read(length) at offset progress; readinto(mv) fills at most length bytes
read(fsrc, progress, length) == SubSeq(fsrc, progress + 1, Min(progress + length, Len(fsrc)))

\* what the user callback receives for the engine's callback(progress, length)
first_callback(chunk, chunk_size, total) == <<chunk, chunk_size, total * 2>>

second_callback(chunk, chunk_size, total) == <<total + chunk, chunk_size, total * 2>>

callback_wrapper(new_callback, chunk, chunk_size, file_size) ==
    IF new_callback = "_second_callback" THEN second_callback(chunk, chunk_size, file_size)
    ELSE <<chunk, chunk_size, file_size>>

\* the whole file taken as the buffer length on Windows
engine_length_file_size(windows, file_size, chunk_size) ==
    IF windows /\ file_size > 0 THEN file_size ELSE chunk_size

\* the engine's length: _copyfileobj_readinto gets min(file_size, chunk_size)
engine_length(windows, file_size, chunk_size) ==
    IF windows /\ file_size > 0 THEN Min(file_size, chunk_size) ELSE chunk_size

RECURSIVE copyfileobj_readinto(_, _, _)
RECURSIVE copyfileobj(_, _, _)

\* _copyfileobj_readinto from offset progress: the callback(progress, length)
\* calls it makes; n = fsrc.readinto(mv), n = 0 ends the loop
copyfileobj_readinto(fsrc, length, progress) ==
    LET n == Len(read(fsrc, progress, length))
    IN IF n = 0 THEN <<>>
       ELSE <<<<progress + n, length>>>> \o copyfileobj_readinto(fsrc, length, progress + n)

\* _copyfileobj from offset progress: buf = fsrc.read(length), an empty buf
\* ends the loop
copyfileobj(fsrc, length, progress) ==
    LET buf == read(fsrc, progress, length)
    IN IF buf = <<>> THEN <<>>
       ELSE <<<<progress + Len(buf), length>>>> \o copyfileobj(fsrc, length, progress + Len(buf))

\* _copyfile on a platform: the calls the callback of copyfile receives
copyfile_calls(windows, fsrc, chunk_size) ==
    LET file_size == Len(fsrc)
        made == IF windows /\ file_size > 0
                THEN copyfileobj_readinto(fsrc, engine_length(windows, file_size, chunk_size), 0)
                ELSE copyfileobj(fsrc, engine_length(windows, file_size, chunk_size), 0)
    IN [k \in 1..Len(made) |-> <<made[k][1], made[k][2], file_size>>]

\* a call of FilesCache.cache_file(self, file_path, unique_id) by keywords
cache_file_call(kwargs) ==
    IF kwargs \subseteq {"file_path", "unique_id"} THEN "ok" ELSE "TypeError"

\* the destination never seen as existing
path_exists_never(d, target) == FALSE

\* target_path.exists()
path_exists(d, target) == d[target] # NoFile

\* the callback argument of copyfile: None, or a function
Callbacks == {"None", "callback"}

\* copyfile up to the first read: the lookup, the destination, the two open()
Copyfile(f, target_path, callback, chunk_size, use_cache) ==
    /\ cp.pc = "idle"
    /\ nops < MaxCopyOps
    /\ nops' = nops + 1
    /\ calls' = <<>>
    /\ copied' = IF use_cache /\ dstdir[IF target_path = DstDir THEN f[2] ELSE target_path[2]] = NoFile
                 THEN copied \cup {<<f, target_path>>} ELSE copied
    /\ LET cache_hash == hash_file(f)
           cache_file == IF use_cache THEN get_file_cache(cache, cache_hash) ELSE None
           hit == cache_file # None
           src_file == IF hit THEN FileAt(cache, cache_file) ELSE SrcFile(f)
           target == IF target_path = DstDir THEN src_file.name ELSE target_path[2]
           call == [Op("copyfile", IF use_cache THEN cache_hash ELSE <<>>, f, None, "running")
                    EXCEPT !.target_path = target_path, !.chunk_size = chunk_size,
                           !.callback = callback,
                           !.use_cache = use_cache, !.hit = hit, !.again = \E t \in Targets \ {target_path} : <<f, t>> \in copied,
                           !.entries = Len(cache.entries), !.target = target,
                           !.dst_before = dstdir[target]]
       IN IF use_cache /\ ~hit
          THEN \* cache_file(src_file, unique_id=..., copy_function=...) raises
               /\ cur' = [call EXCEPT !.exc =
                             cache_file_call({"file_path", "unique_id", "copy_function"})]
               /\ UNCHANGED <<src, is_windows, mv, bar, web, fetched, download_cache, tree, cache, dstdir, cp, wr>>
          ELSE IF path_exists(dstdir, target)
          THEN /\ cur' = [call EXCEPT !.exc = "FileExistsError"]
               /\ UNCHANGED <<src, is_windows, mv, bar, web, fetched, download_cache, tree, cache, dstdir, cp, wr>>
          ELSE /\ cur' = call
               /\ dstdir' = [dstdir EXCEPT ![target] =
                                [name |-> target, content |-> <<>>, meta |-> -1]]
               /\ cp' = [pc |-> "loop", src_meta |-> src_file.meta, fsrc |-> src_file.content,
                         file_size |-> Len(src_file.content), progress |-> 0,
                         target |-> target,
                         length |-> engine_length(is_windows, Len(src_file.content), chunk_size),
                         new_callback |-> callback,
                         src_file |-> cache_file, tempfolder |-> <<>>,
                         blocknum |-> 0, use_cache |-> use_cache]
               /\ UNCHANGED <<src, is_windows, mv, bar, web, fetched, download_cache, tree, cache, wr>>

\* one turn of the engine's loop: read, write, callback; an empty read ends it
\* _callback_wrapper calls the callback if there is one
CopyChunk ==
    /\ cp.pc = "loop"
    /\ LET buf == read(cp.fsrc, cp.progress, cp.length)
       IN IF buf = <<>>
          THEN /\ cp' = [cp EXCEPT !.pc = "copystat"]
               /\ UNCHANGED <<dstdir, calls>>
          ELSE /\ dstdir' = [dstdir EXCEPT ![cp.target].content = @ \o buf]
               /\ cp' = [cp EXCEPT !.progress = @ + Len(buf)]
               /\ calls' = IF cp.new_callback = "None" THEN calls
                           ELSE Append(calls,
                                    callback_wrapper(cp.new_callback, cp.progress + Len(buf),
                                                     cp.length, cp.file_size))
    /\ UNCHANGED <<src, is_windows, mv, bar, web, fetched, download_cache, tree, cache, cur, copied, nops, wr>>

\* shutil.copystat(src_file, target_path); return target_path
\* src_file is stat-ed by its path: the cached file when the copy is a hit
CopyStat ==
    /\ cp.pc = "copystat"
    /\ IF cp.src_file # None /\ FileAt(cache, cp.src_file) = NoFile
       THEN /\ cur' = [cur EXCEPT !.exc = "FileNotFoundError"]
            /\ UNCHANGED dstdir
       ELSE /\ dstdir' = [dstdir EXCEPT ![cp.target].meta =
                             IF cp.src_file # None THEN FileAt(cache, cp.src_file).meta
                             ELSE cp.src_meta]
            /\ cur' = [cur EXCEPT !.exc = "ok", !.ret = <<DstDir[1], cp.target>>]
    /\ cp' = Idle
    /\ UNCHANGED <<src, is_windows, mv, bar, web, fetched, download_cache, tree, cache, calls, copied, nops, wr>>

\* the entry a copy of f stores in _COPYING_CACHE: made on a miss only
StoreSource(f) ==
    /\ cp.pc = "idle"
    /\ nops < MaxCopyOps
    /\ get_file_cache(cache, hash_file(f)) = None
    /\ DoCacheFile(f, hash_file(f))

\* the user rewrites a cached source in place: same size, other bytes, a
\* later modification time
ModifySource(f) ==
    /\ cp.pc = "idle"
    /\ src[f].mtime = Tag(f)
    /\ get_file_cache(cache, hash_file(f)) # None
    /\ src' = [src EXCEPT ![f].content = [i \in 1..Len(@) |-> @[i] + 100],
                          ![f].mtime = @ + 10]
    /\ cur' = Op("modify", <<>>, f, None, "ok")
    /\ copied' = {x \in copied : x[1] # f}
    /\ UNCHANGED <<is_windows, mv, bar, web, fetched, download_cache, tree, cache, dstdir, cp, calls, nops, wr>>

CopyNext ==
    \/ \E f \in SrcFiles : StoreSource(f)
    \/ \E f \in SrcFiles : ModifySource(f)
    \/ \E f \in SrcFiles, t \in Targets, c \in 1..MaxChunk, u \in BOOLEAN :
          Copyfile(f, t, "callback", c, u)
    \/ CopyChunk
    \/ CopyStat

\* one caller of copyfile and of its cache _COPYING_CACHE
SpecCopy == Init /\ [][CopyNext]_vars

\* the same caller, passing a callback or none
OptionalNext ==
    \/ \E f \in SrcFiles : StoreSource(f)
    \/ \E f \in SrcFiles, t \in Targets, cb \in Callbacks, c \in 1..MaxChunk, u \in BOOLEAN :
          Copyfile(f, t, cb, c, u)
    \/ CopyChunk
    \/ CopyStat

\* one caller of copyfile whose callback is optional
SpecOptional == Init /\ [][OptionalNext]_vars

\* the exception is caught and the call goes on
Swallows(exc) ==
    /\ cur' = [cur EXCEPT !.exc = exc]
    /\ cp' = [cp EXCEPT !.progress = Min(@ + cp.length, Len(cp.fsrc))]

\* an exception leaves the call
Raises(exc) ==
    /\ cur' = [cur EXCEPT !.exc = exc]
    /\ cp' = Idle

\* one turn of the engine's loop in which the user callback raises: the chunk
\* is written, the callback is called, and its exception leaves _copyfileobj,
\* the two with-blocks of _copyfile, and copyfile before shutil.copystat
CopyChunkRaises ==
    /\ cp.pc = "loop"
    /\ cp.new_callback # "None"
    /\ LET buf == read(cp.fsrc, cp.progress, cp.length)
       IN /\ buf # <<>>
          /\ dstdir' = [dstdir EXCEPT ![cp.target].content = @ \o buf]
          /\ calls' = Append(calls,
                callback_wrapper(cp.new_callback, cp.progress + Len(buf),
                                 cp.length, cp.file_size))
          /\ Raises("CallbackError")
    /\ UNCHANGED <<src, is_windows, mv, bar, web, fetched, download_cache, tree, cache, copied,
                   nops, wr>>

AbortNext ==
    \/ \E f \in SrcFiles, t \in Targets, c \in 1..MaxChunk : Copyfile(f, t, "callback", c, FALSE)
    \/ CopyChunk
    \/ CopyStat
    \/ CopyChunkRaises

\* one caller of copyfile(use_cache=False) whose callback may raise
SpecAbort == Init /\ [][AbortNext]_vars

\* ------------------------------------------------------------ download_file
\* what the server sends for url: the body, which its revision decides, and
\* whether the headers carry Content-Length
Body(url) ==
    IF url[2] = "avatar" THEN [i \in 1..MaxSize |-> 30 + i + 100 * web[url]]
    ELSE <<41 + 100 * web[url]>>

HasContentLength(url) == url[2] = "avatar"

\* size = -1; if "content-length" in headers: size = int(headers[...])
\* the size taken as 0 when the header is absent
content_length_zero(url) == IF HasContentLength(url) THEN Len(Body(url)) ELSE 0

content_length(url) == IF HasContentLength(url) THEN Len(Body(url)) ELSE -1

DownloadTargets == {<<"dst01", "render.jpg">>, <<"dst01", "render-copy1.jpg">>}

\* os.getenv(_DISABLE_CACHE_ENV_VAR): None when unset, else the string
EnvValues == {"unset", "", "1"}

\* the caller's use_cache taken whatever the variable says
use_cache_ignoring_env(use_cache, value) == use_cache

\* the cache used whatever the caller and the variable say
use_cache_always(use_cache, value) == TRUE

\* if os.getenv(_DISABLE_CACHE_ENV_VAR): use_cache = False
use_cache_after_env(use_cache, value) ==
    IF value # "unset" /\ value # "" THEN FALSE ELSE use_cache

\* download_file up to the first read.  opened: the server answered
DownloadFile(url, target_file, use_cache, step_callback, getenv, opened) ==
    /\ cp.pc = "idle"
    /\ nops < MaxDownloads
    /\ nops' = nops + 1
    /\ LET effective == use_cache_after_env(use_cache, getenv)
           cache_file == IF effective THEN get_file_cache(download_cache, url) ELSE None
           target == target_file[2]
           size == content_length(url)
           call == [Op("download_file", url, NoPath, None, "running")
                    EXCEPT !.use_cache = use_cache, !.getenv = getenv,
                           !.step_callback = step_callback, !.target = target,
                           !.dst_before = dstdir[target], !.hit = cache_file # None,
                           !.opened = (cache_file = None),
                           !.entries = Len(download_cache.entries),
                           !.was_empty = is_empty(download_cache)]
       IN IF cache_file # None
          THEN \* shutil.copy2(cache_file, target_file); return
               /\ dstdir' = [dstdir EXCEPT ![target] =
                                [name |-> target,
                                 content |-> FileAt(download_cache, cache_file).content,
                                 meta |-> FileAt(download_cache, cache_file).meta]]
               /\ cur' = [call EXCEPT !.exc = "ok"]
               /\ calls' = <<>>
               /\ UNCHANGED cp
          ELSE IF ~opened
          THEN /\ cur' = [call EXCEPT !.exc = "URLError"]
               /\ calls' = <<>>
               /\ UNCHANGED <<dstdir, cp>>
          ELSE /\ dstdir' = [dstdir EXCEPT ![target] =
                                [name |-> target, content |-> <<>>, meta |-> -1]]
               /\ cur' = call
               /\ calls' = IF step_callback THEN <<<<0, BlockSize, size>>>> ELSE <<>>
               /\ cp' = [Idle EXCEPT !.pc = "download", !.fsrc = Body(url),
                                     !.file_size = size, !.target = target,
                                     !.length = BlockSize, !.use_cache = effective]
    /\ UNCHANGED <<src, is_windows, mv, bar, web, fetched, download_cache, tree, cache, copied, wr>>

\* one turn of the loop: the read fails, or a block is written and reported,
\* or the empty read ends the loop and the file is cached under the url
DownloadBlock ==
    /\ cp.pc = "download"
    /\ \/ /\ Raises("IncompleteRead")
          /\ UNCHANGED <<dstdir, calls, download_cache, fetched>>
       \/ LET buf == read(cp.fsrc, cp.progress, cp.length)
          IN IF buf # <<>>
             THEN /\ dstdir' = [dstdir EXCEPT ![cp.target].content = @ \o buf]
                  /\ cp' = [cp EXCEPT !.progress = @ + Len(buf), !.blocknum = @ + 1]
                  /\ calls' = IF cur.step_callback
                              THEN Append(calls, <<cp.blocknum + 1, cp.length, cp.file_size>>)
                              ELSE calls
                  /\ UNCHANGED <<cur, download_cache, fetched>>
             ELSE /\ cur' = [cur EXCEPT !.exc = "ok"]
                  /\ cp' = Idle
                  /\ UNCHANGED <<dstdir, calls>>
                  /\ IF cp.use_cache
                     THEN /\ \E suffix \in Suffixes,
                                pos \in 1..(Len(download_cache.entries) + 1) :
                               /\ ~HasEntry(download_cache,
                                            [prefix |-> hash_str(cur.id), suffix |-> suffix])
                               /\ download_cache' = cache_file_cache(download_cache,
                                      dstdir[cp.target], cur.id, suffix, pos)
                          /\ fetched' = [fetched EXCEPT ![cur.id] =
                                            IF @ = None THEN <<dstdir[cp.target].content>>
                                            ELSE @]
                     ELSE UNCHANGED <<download_cache, fetched>>
    /\ UNCHANGED <<src, is_windows, mv, bar, web, tree, cache, copied, nops, wr>>

\* clear_download_cache()
ClearDownloadCache ==
    /\ cp.pc = "idle"
    /\ nops < MaxDownloads
    /\ ~is_empty(download_cache)
    /\ download_cache' = clear(download_cache)
    /\ cur' = [Op("clear", <<>>, NoPath, None, "ok")
                EXCEPT !.entries = Len(download_cache.entries)]
    /\ fetched' = [url \in Urls |-> None]
    /\ nops' = nops + 1
    /\ UNCHANGED <<src, is_windows, mv, bar, web, tree, cache, dstdir, cp, calls, copied, wr>>

\* the environment: the server of url starts sending other bytes
ServerChanges(url) ==
    /\ cp.pc = "idle"
    /\ nops < MaxDownloads
    /\ web[url] = 0
    /\ web' = [web EXCEPT ![url] = 1]
    /\ UNCHANGED <<src, is_windows, mv, bar, fetched, download_cache, tree, cache, dstdir, cp, calls,
                   cur, copied, nops, wr>>

DownloadNext ==
    \/ \E url \in Urls, t \in DownloadTargets, u \in BOOLEAN, s \in BOOLEAN,
          e \in EnvValues, o \in BOOLEAN : DownloadFile(url, t, u, s, e, o)
    \/ DownloadBlock
    \/ ClearDownloadCache

\* the calls are those made with the kill switch unset
ServerNext ==
    \/ \E url \in Urls, t \in DownloadTargets, u \in BOOLEAN, s \in BOOLEAN, o \in BOOLEAN :
          DownloadFile(url, t, u, s, "unset", o)
    \/ DownloadBlock
    \/ ClearDownloadCache
    \/ \E url \in Urls : ServerChanges(url)

\* download_file reads neither os.name nor the source files
InitDownload == Init /\ ~is_windows /\ Len(src[<<"data", "render.jpg">>].content) = MaxSize

\* one caller of download_file and of its cache _DOWNLOAD_CACHE
SpecDownload == InitDownload /\ [][DownloadNext]_vars

\* the same caller, and servers that change what they send between two calls
SpecServer == InitDownload /\ [][ServerNext]_vars

\* step_callback raises: in its first call, made before any read, or in the
\* call that follows a block written; the exception leaves the two with-blocks
\* and download_file before the cache is written
DownloadCallbackRaises ==
    /\ cp.pc = "download"
    /\ cur.step_callback
    /\ \/ /\ cp.blocknum = 0
          /\ Raises("CallbackError")
          /\ UNCHANGED <<dstdir, calls>>
       \/ LET buf == read(cp.fsrc, cp.progress, cp.length)
          IN /\ buf # <<>>
             /\ dstdir' = [dstdir EXCEPT ![cp.target].content = @ \o buf]
             /\ calls' = Append(calls, <<cp.blocknum + 1, cp.length, cp.file_size>>)
             /\ Raises("CallbackError")
    /\ UNCHANGED <<src, is_windows, mv, bar, web, fetched, download_cache, tree, cache, copied,
                   nops, wr>>

\* the environment: the connection is closed before the whole body was sent;
\* url_stream.read returns the bytes received, then nothing (http.client does
\* not raise for a body shorter than its Content-Length when read by amount)
ConnectionCloses ==
    /\ cp.pc = "download"
    /\ \E k \in cp.progress..(Len(cp.fsrc) - 1) : cp' = [cp EXCEPT !.fsrc = SubSeq(@, 1, k)]
    /\ UNCHANGED <<src, is_windows, mv, bar, web, fetched, download_cache, tree, cache, dstdir,
                   calls, cur, copied, nops, wr>>

\* the calls made with the kill switch unset, on a network that fails
InterruptedNext ==
    \/ \E url \in Urls, t \in DownloadTargets, u \in BOOLEAN, s \in BOOLEAN, o \in BOOLEAN :
          DownloadFile(url, t, u, s, "unset", o)
    \/ DownloadBlock
    \/ DownloadCallbackRaises
    \/ ConnectionCloses
    \/ ClearDownloadCache

\* one caller of download_file, a step_callback that may raise and a
\* connection that may be closed early
SpecInterrupted == InitDownload /\ [][InterruptedNext]_vars

\* the copies are those made with use_cache=False, next to stored entries
TransferNext ==
    \/ \E f \in SrcFiles : StoreSource(f)
    \/ \E f \in SrcFiles, t \in Targets, c \in 1..MaxChunk : Copyfile(f, t, "callback", c, FALSE)
    \/ CopyChunk
    \/ CopyStat
    \/ DownloadNext

\* copyfile reads os.name; render.jpg of MaxSize bytes and render2.jpg empty
InitTransfer == Init /\ Len(src[<<"data", "render.jpg">>].content) = MaxSize

\* one caller of copyfile and download_file, each with its own cache
SpecTransfer == InitTransfer /\ [][TransferNext]_vars

\* ------------------------------------------------------------------ rmtree
\* POSIX: an entry is removed from a directory that is writable, whatever its
\* own mode; Windows: a read-only file or directory cannot be removed.  The
\* directory that holds the root is writable.
Parent(q) == SubSeq(q, 1, Len(q) - 1)

Denied(T, q) ==
    IF is_windows THEN ~T[q].writable
    ELSE Len(q) > 1 /\ ~T[Parent(q)].writable

IsChild(T, q, d) == Len(q) = Len(d) + 1 /\ Parent(q) = d /\ T[q].kind # "none"

\* the orders in which the directories are listed
Listings ==
    {<<<<"dst01">>, <<"dst01", "render.jpg">>, <<"dst01", "dirA">>,
       <<"dst01", "dirA", "README.md">>, <<"dst01", "dirA", "dirAA">>,
       <<"dst01", "dirA", "dirAA", "README.md">>>>,
     <<<<"dst01">>, <<"dst01", "dirA">>, <<"dst01", "render.jpg">>,
       <<"dst01", "dirA", "dirAA">>, <<"dst01", "dirA", "README.md">>,
       <<"dst01", "dirA", "dirAA", "README.md">>>>}

scandir(T, d, listing) == SelectSeq(listing, LAMBDA q : IsChild(T, q, d))

Done(T) == [tree |-> T, exc |-> ""]

Failed(T, exc) == [tree |-> T, exc |-> exc]

unlink(T, q) ==
    IF T[q].kind = "none" THEN Failed(T, "FileNotFoundError")
    ELSE IF Denied(T, q) THEN Failed(T, "PermissionError")
    ELSE IF T[q].kind = "dir"
    THEN Failed(T, IF is_windows THEN "PermissionError" ELSE "IsADirectoryError")
    ELSE Done([T EXCEPT ![q] = NoNode])

rmdir(T, q) ==
    IF T[q].kind = "none" THEN Failed(T, "FileNotFoundError")
    ELSE IF T[q].kind = "file" THEN Failed(T, "NotADirectoryError")
    ELSE IF Denied(T, q) THEN Failed(T, "PermissionError")
    ELSE IF \E c \in TreePaths : IsChild(T, c, q) THEN Failed(T, "OSError")
    ELSE Done([T EXCEPT ![q] = NoNode])

\* os.chmod(path_, 0o700)
resetperms(T, q) == [T EXCEPT ![q].writable = TRUE]

RECURSIVE shutil_rmtree(_, _, _, _, _)
RECURSIVE rmtree_safe_fd(_, _, _, _, _)
RECURSIVE rmtree_entries(_, _, _, _, _)
RECURSIVE onerror(_, _, _, _, _, _)

\* the handler given to shutil.rmtree: onerror=None raises; rmtree's onerror
\* resets the permissions of path_ (`path_ != path_` is never true), unlinks
\* it, and calls rmtree(path_) when that fails
onerror(T, q, exc, listing, handler, fuel) ==
    IF handler = "raise" THEN Failed(T, exc)
    ELSE IF exc = "PermissionError"
    THEN IF T[q].kind = "none" THEN Done(T)
         ELSE LET T1 == resetperms(T, q)
                  u == unlink(T1, q)
              IN IF u.exc = "" THEN u
                 ELSE IF u.exc \in {"IsADirectoryError", "PermissionError"}
                 THEN shutil_rmtree(T1, q, listing, handler, fuel - 1)
                 ELSE Done(T1)
    ELSE IF exc = "FileNotFoundError" THEN Done(T)
    ELSE IF handler = "ignore_errors" THEN Done(T)
    ELSE Failed(T, exc)

\* the entries of one directory, in listing order, until an exception leaves
rmtree_entries(T, entries, listing, handler, fuel) ==
    IF entries = <<>> THEN Done(T)
    ELSE LET q == Head(entries)
             r == IF T[q].kind = "dir"
                  THEN LET a == rmtree_safe_fd(T, q, listing, handler, fuel)
                       IN IF a.exc # "" THEN a
                          ELSE LET d == rmdir(a.tree, q)
                               IN IF d.exc = "" THEN d
                                  ELSE onerror(a.tree, q, d.exc, listing, handler, fuel)
                  ELSE LET u == unlink(T, q)
                       IN IF u.exc = "" THEN u
                          ELSE onerror(T, q, u.exc, listing, handler, fuel)
         IN IF r.exc # "" THEN r
            ELSE rmtree_entries(r.tree, Tail(entries), listing, handler, fuel)

rmtree_safe_fd(T, q, listing, handler, fuel) ==
    IF T[q].kind # "dir" THEN onerror(T, q, "NotADirectoryError", listing, handler, fuel)
    ELSE rmtree_entries(T, scandir(T, q, listing), listing, handler, fuel)

\* shutil.rmtree(path, onerror=handler); fuel is the recursion depth left
shutil_rmtree(T, q, listing, handler, fuel) ==
    IF fuel = 0 THEN Failed(T, "RecursionError")
    ELSE IF T[q].kind = "none"
    THEN onerror(T, q, "FileNotFoundError", listing, handler, fuel)
    ELSE LET r == rmtree_safe_fd(T, q, listing, handler, fuel)
         IN IF r.exc # "" THEN r
            ELSE LET d == rmdir(r.tree, q)
                 IN IF d.exc = "" THEN d
                    ELSE onerror(r.tree, q, d.exc, listing, handler, fuel)

\* FilesCache.clear() on a cache root that is the tree
clear_tree(T, listing) ==
    IF T[TreeRoot].kind = "none" THEN Done(T)
    ELSE shutil_rmtree(T, TreeRoot, listing, "raise", RecursionLimit)

\* set_path_read_only(q)
SetPathReadOnly(q) ==
    /\ tree[q].kind # "none"
    /\ tree[q].writable
    /\ tree' = [tree EXCEPT ![q].writable = FALSE]
    /\ UNCHANGED <<src, is_windows, mv, bar, web, fetched, download_cache, cache, dstdir, cp, calls, cur, copied,
                   nops, wr>>

\* rmtree(path, ignore_errors)
Rmtree(listing, ignore_errors) ==
    /\ nops < MaxRemovals
    /\ LET r == shutil_rmtree(tree, TreeRoot, listing,
                              IF ignore_errors THEN "ignore_errors" ELSE "onerror",
                              RecursionLimit)
       IN /\ tree' = r.tree
          /\ cur' = [Op("rmtree", <<>>, NoPath, None, IF r.exc = "" THEN "ok" ELSE r.exc)
                      EXCEPT !.readonly = {q \in TreePaths : tree[q].kind # "none"
                                                             /\ ~tree[q].writable},
                             !.ignore_errors = ignore_errors]
    /\ nops' = nops + 1
    /\ UNCHANGED <<src, is_windows, mv, bar, web, fetched, download_cache, cache, dstdir, cp, calls, copied, wr>>

\* FilesCache.clear() of a cache whose root directory is the tree
ClearTree(listing) ==
    /\ nops < MaxRemovals
    /\ LET r == clear_tree(tree, listing)
       IN /\ tree' = r.tree
          /\ cur' = [Op("clear", <<>>, NoPath, None, IF r.exc = "" THEN "ok" ELSE r.exc)
                      EXCEPT !.readonly = {q \in TreePaths : tree[q].kind # "none"
                                                             /\ ~tree[q].writable}]
    /\ nops' = nops + 1
    /\ UNCHANGED <<src, is_windows, mv, bar, web, fetched, download_cache, cache, dstdir, cp, calls, copied, wr>>

RmtreeNext ==
    \/ \E q \in TreePaths : SetPathReadOnly(q)
    \/ \E l \in Listings, i \in BOOLEAN : Rmtree(l, i)
    \/ \E l \in Listings : ClearTree(l)

\* the removal reads os.name only
InitRmtree == Init /\ Len(src[<<"data", "render.jpg">>].content) = MaxSize

\* the caller of rmtree and of FilesCache.clear, and the tree they remove
SpecRmtree == InitRmtree /\ [][RmtreeNext]_vars

\* ------------------------------------- move_directory_content, copytree
\* a file holds bytes that name the directory and the path it was made at
NodesAt(side, p) ==
    {Absent, [kind |-> "dir", content |-> <<>>], [kind |-> "file", content |-> <<side, p>>]}

\* the directories a test can make: a path exists in an existing directory
Dirs(side) ==
    {t \in [RelPaths -> UNION {NodesAt(side, p) : p \in RelPaths}] :
        \A p \in RelPaths :
            /\ t[p] \in NodesAt(side, p)
            /\ (Len(p) > 1 /\ t[p].kind # "none") => t[Parent(p)].kind = "dir"}

\* the orders in which scandir lists the directories
Orders ==
    {<<<<"foo.py">>, <<"somedir">>, <<"somedir", "file.py">>, <<"somedir", "NEWFILE">>>>,
     <<<<"somedir">>, <<"foo.py">>, <<"somedir", "NEWFILE">>, <<"somedir", "file.py">>>>}

Under(r, p) == Len(p) >= Len(r) /\ SubSeq(p, 1, Len(r)) = r

\* directory.glob("*"), os.scandir(directory)
children(t, r, order) ==
    SelectSeq(order, LAMBDA q : Len(q) = Len(r) + 1 /\ Under(r, q) /\ t[q].kind # "none")

\* the target never seen as existing
target_exists_never(D, q) == FALSE

\* target.exists()
target_exists(D, q) == D.dst[q].kind # "none"

\* shutil.move(src_path, target): a rename of the path with all it holds; the
\* directory to move into is a file when the recursion went into one
shutil_move(D, q) ==
    IF Len(q) > 1 /\ D.dst[Parent(q)].kind # "dir"
    THEN [dirs |-> D, exc |-> "NotADirectoryError"]
    ELSE [dirs |-> [D EXCEPT !.src = [p \in RelPaths |-> IF Under(q, p) THEN Absent ELSE @[p]],
                             !.dst = [p \in RelPaths |->
                                        IF Under(q, p) THEN D.src[p] ELSE @[p]]],
          exc |-> ""]

RECURSIVE move_directory_content(_, _, _, _, _)
RECURSIVE move_entries(_, _, _, _, _)

\* the body of the loop for each src_path, until an exception leaves
move_entries(D, entries, exists_ok, recursive, order) ==
    IF entries = <<>> THEN [dirs |-> D, exc |-> ""]
    ELSE LET q == Head(entries)
             r == IF target_exists(D, q) /\ exists_ok
                  THEN IF D.src[q].kind = "dir" /\ recursive
                       THEN move_directory_content(D, q, TRUE, TRUE, order)
                       ELSE [dirs |-> D, exc |-> ""]
                  ELSE IF target_exists(D, q)
                  THEN [dirs |-> D, exc |-> "FileExistsError"]
                  ELSE LET m == shutil_move(D, q)
                       IN IF m.exc # "" THEN m
                          ELSE IF m.dirs.src[q].kind = "dir" /\ recursive
                          THEN move_directory_content(m.dirs, q, TRUE, TRUE, order)
                          ELSE m
         IN IF r.exc # "" THEN r
            ELSE move_entries(r.dirs, Tail(entries), exists_ok, recursive, order)

\* move_directory_content(source / r, target / r, exists_ok, recursive)
move_directory_content(D, r, exists_ok, recursive, order) ==
    move_entries(D, children(D.src, r, order), exists_ok, recursive, order)

RECURSIVE get_dir_content(_, _, _)
RECURSIVE get_dir_entries(_, _, _)

get_dir_entries(t, entries, order) ==
    IF entries = <<>> THEN <<>>
    ELSE <<Head(entries)>>
         \o (IF t[Head(entries)].kind = "dir" THEN get_dir_content(t, Head(entries), order)
             ELSE <<>>)
         \o get_dir_entries(t, Tail(entries), order)

\* get_dir_content(src_dir / r, recursive=True)
get_dir_content(t, r, order) == get_dir_entries(t, children(t, r, order), order)

\* _ignore_func that reports src_dir as well
ignore_func_root(st, r, items_count) ==
    [calls |-> Append(st.calls, <<r, st.current, items_count>>), current |-> st.current + 1]

\* _ignore_func, called for each directory: r = <<>> is src_dir itself
ignore_func(st, r, items_count) ==
    [calls |-> IF r # <<>> THEN Append(st.calls, <<r, st.current, items_count>>)
               ELSE st.calls,
     current |-> st.current + 1]

\* _copy_func, called for each file
copy_func(st, q, items_count) ==
    [calls |-> Append(st.calls, <<q, st.current, items_count>>), current |-> st.current + 1]

RECURSIVE shutil_copytree(_, _, _, _, _)
RECURSIVE copytree_entries(_, _, _, _, _)

copytree_entries(t, entries, order, st, items_count) ==
    IF entries = <<>> THEN st
    ELSE copytree_entries(t, Tail(entries), order,
             IF t[Head(entries)].kind = "dir"
             THEN shutil_copytree(t, Head(entries), order, st, items_count)
             ELSE copy_func(st, Head(entries), items_count),
             items_count)

\* shutil.copytree(src_dir / r, ..., copy_function=_copy_func, ignore=_ignore_func):
\* the callbacks made and the value of progress.current
shutil_copytree(t, r, order, st, items_count) ==
    copytree_entries(t, children(t, r, order), order, ignore_func(st, r, items_count),
                     items_count)

\* the test makes the two directories
MakeDirs(S, T) ==
    /\ ~mv.made
    /\ cp.pc = "idle"
    /\ mv' = [made |-> TRUE, src |-> S, dst |-> T, before |-> [src |-> S, dst |-> T],
              copy |-> EmptyDir]
    /\ UNCHANGED <<src, is_windows, bar, web, fetched, download_cache, tree, cache, dstdir, cp,
                   calls, cur, copied, nops, wr>>

MoveDirectoryContent(exists_ok, recursive, order) ==
    /\ mv.made
    /\ nops < MaxMoves
    /\ LET r == move_directory_content([src |-> mv.src, dst |-> mv.dst], <<>>, exists_ok,
                                       recursive, order)
       IN /\ mv' = [mv EXCEPT !.src = r.dirs.src, !.dst = r.dirs.dst,
                              !.before = [src |-> mv.src, dst |-> mv.dst]]
          /\ cur' = [Op("move_directory_content", <<>>, NoPath, None,
                         IF r.exc = "" THEN "ok" ELSE r.exc)
                      EXCEPT !.exists_ok = exists_ok, !.recursive = recursive,
                             !.order = order]
    /\ nops' = nops + 1
    /\ UNCHANGED <<src, is_windows, bar, web, fetched, download_cache, tree, cache, dstdir, cp,
                   calls, copied, wr>>

\* copytree(source, <a directory that does not exist>, callback)
Copytree(order) ==
    /\ mv.made
    /\ nops < MaxMoves
    /\ LET items_count == Len(get_dir_content(mv.src, <<>>, order))
       IN calls' = shutil_copytree(mv.src, <<>>, order, [calls |-> <<>>, current |-> 0],
                                   items_count).calls
    /\ mv' = [mv EXCEPT !.copy = mv.src]
    /\ cur' = [Op("copytree", <<>>, NoPath, None, "ok") EXCEPT !.order = order]
    /\ nops' = nops + 1
    /\ UNCHANGED <<src, is_windows, bar, web, fetched, download_cache, tree, cache, dstdir, cp,
                   copied, wr>>

TreeNext ==
    \/ \E S \in Dirs("src"), T \in Dirs("dst") : MakeDirs(S, T)
    \/ \E e \in BOOLEAN, r \in BOOLEAN, o \in Orders : MoveDirectoryContent(e, r, o)
    \/ \E o \in Orders : Copytree(o)

\* the directories are read, not os.name nor the source files
InitTree == Init /\ ~is_windows /\ Len(src[<<"data", "render.jpg">>].content) = MaxSize

\* one caller of move_directory_content and copytree on two directories
SpecTree == InitTree /\ [][TreeNext]_vars

\* ------------------------------------------------------------- ProgressBar
Max(a, b) == IF a > b THEN a ELSE b

\* math.floor(n / d), d # 0
floor_div(n, d) == IF d > 0 THEN n \div d ELSE (0 - n) \div (0 - d)

\* remap_range(value, source_min, source_max, 0.0, target_max), floored
bar_width(b) == floor_div(b.width * (b.user_index - b.user_min), b.user_max - b.user_min)

\* what a terminal makes of the escape sequences: ESC[?25l hides the cursor,
\* ESC[?25h shows it, any other sequence leaves it as it is
cursor_shown(escapes) ==
    LET modes == SelectSeq(escapes, LAMBDA e : e \in {"ESC[?25l", "ESC[?25h"})
    IN modes = <<>> \/ modes[Len(modes)] = "ESC[?25h"

\* set_cursor_visibility(visible)
set_cursor_visibility(b, visible) ==
    IF visible /\ ~b.is_cursor_visible
    THEN [b EXCEPT !.stream.escapes = Append(@, "ESC[?25n"), !.is_cursor_visible = TRUE]
    ELSE IF ~visible /\ b.is_cursor_visible
    THEN [b EXCEPT !.stream.escapes = Append(@, "ESC[?25l"), !.is_cursor_visible = FALSE]
    ELSE b

\* the text of the bar: str * n is empty for n < 0
bar_text(b) ==
    IF b.had_progress
    THEN <<"bar", Max(0, bar_width(b)), Max(0, b.width - bar_width(b))>>
    ELSE <<"dots", (b.update_number % 3) + 1, 0>>

\* update() that draws whether the bar is ended or not
update_when_ended(b) ==
    LET b1 == [b EXCEPT !.start_time = TRUE]
        b2 == IF b1.hide_cursor THEN set_cursor_visibility(b1, FALSE) ELSE b1
    IN IF b2.had_progress /\ b2.user_max = b2.user_min
       THEN [bar |-> b2, exc |-> "ZeroDivisionError"]
       ELSE [bar |-> [b2 EXCEPT !.stream.line = bar_text(b2), !.stream.texts = @ + 1,
                                !.update_number = @ + 1],
             exc |-> "ok"]

\* update(): the bar after the call, and the exception that left it
update(b) ==
    IF b.is_ended THEN [bar |-> b, exc |-> "ok"]
    ELSE LET b1 == [b EXCEPT !.start_time = TRUE]
             b2 == IF b1.hide_cursor THEN set_cursor_visibility(b1, FALSE) ELSE b1
         IN IF b2.had_progress /\ b2.user_max = b2.user_min
            THEN [bar |-> b2, exc |-> "ZeroDivisionError"]
            ELSE [bar |-> [b2 EXCEPT !.stream.line = bar_text(b2), !.stream.texts = @ + 1,
                                     !.update_number = @ + 1],
                  exc |-> "ok"]

set_progress(b, total_progress, new_maximum) ==
    LET b1 == [b EXCEPT !.had_progress = TRUE]
        b2 == IF new_maximum # None THEN [b1 EXCEPT !.user_max = new_maximum[1]] ELSE b1
    IN update([b2 EXCEPT !.user_index = Min(total_progress, b2.user_max)])

add_progress(b, progress_amount, new_maximum) ==
    LET b1 == [b EXCEPT !.had_progress = TRUE]
        b2 == IF new_maximum # None THEN [b1 EXCEPT !.user_max = new_maximum[1]] ELSE b1
    IN update([b2 EXCEPT !.user_index = Min(b2.user_index + progress_amount, b2.user_max)])

start(b) == update(b)

\* end(): print(file=self._stream), then the cursor
end(b) ==
    set_cursor_visibility([b EXCEPT !.is_ended = TRUE, !.stream.newlines = @ + 1], TRUE)

\* the values given as minimum, maximum and progress
Values == 0..MaxValue

Maximums == {None} \cup {<<v>> : v \in Values}

BarCall(op, r) ==
    /\ bar' = r.bar
    /\ cur' = [Op(op, <<>>, NoPath, None, r.exc) EXCEPT !.ended = bar.is_ended]
    /\ nops' = nops + 1
    /\ UNCHANGED <<src, is_windows, mv, web, fetched, download_cache, tree, cache, dstdir, cp,
                   calls, copied, wr>>

\* ProgressBar(min_value, max_value, width=Width, hide_cursor=hide_cursor)
NewProgressBar(min_value, max_value, hide_cursor) ==
    /\ ~bar.made
    /\ cp.pc = "idle"
    /\ BarCall("ProgressBar",
               [bar |-> [NoBar EXCEPT !.made = TRUE, !.user_index = min_value,
                                      !.user_min = min_value, !.user_max = max_value,
                                      !.width = Width, !.hide_cursor = hide_cursor],
                exc |-> "ok"])

CanCall == bar.made /\ nops < MaxBarOps

Start == CanCall /\ BarCall("start", start(bar))

Update == CanCall /\ BarCall("update", update(bar))

SetProgress(total_progress, new_maximum) ==
    /\ CanCall
    /\ BarCall("set_progress", set_progress(bar, total_progress, new_maximum))

\* run counts the add_progress(a, M) calls made in a row since the value was 0
AddProgress(progress_amount, new_maximum) ==
    /\ CanCall
    /\ bar' = add_progress(bar, progress_amount, new_maximum).bar
    /\ cur' = [Op("add_progress", <<>>, NoPath, None,
                   add_progress(bar, progress_amount, new_maximum).exc)
                EXCEPT !.ended = bar.is_ended, !.amount = progress_amount,
                       !.new_maximum = new_maximum,
                       !.run = IF /\ cur.op = "add_progress" /\ cur.run > 0
                                  /\ cur.amount = progress_amount
                                  /\ cur.new_maximum = new_maximum
                               THEN cur.run + 1
                               ELSE IF bar.user_index = 0 THEN 1 ELSE 0]
    /\ nops' = nops + 1
    /\ UNCHANGED <<src, is_windows, mv, web, fetched, download_cache, tree, cache, dstdir, cp,
                   calls, copied, wr>>

\* progress_bar.max_value = new_max_value
SetMaxValue(new_max_value) ==
    /\ CanCall
    /\ BarCall("max_value",
               IF bar.had_progress THEN update([bar EXCEPT !.user_max = new_max_value])
               ELSE [bar |-> [bar EXCEPT !.user_max = new_max_value], exc |-> "ok"])

\* progress_bar.min_value = new_min_value
SetMinValue(new_min_value) ==
    /\ CanCall
    /\ BarCall("min_value",
               IF bar.had_progress THEN update([bar EXCEPT !.user_min = new_min_value])
               ELSE [bar |-> [bar EXCEPT !.user_min = new_min_value], exc |-> "ok"])

End == CanCall /\ BarCall("end", [bar |-> end(bar), exc |-> "ok"])

\* with catch_download_progress(hide_cursor=...) as progress_bar: the bar is
\* made and started, and the body is entered
CatchDownloadProgress(hide_cursor) ==
    /\ ~bar.made
    /\ cp.pc = "idle"
    /\ bar' = start([NoBar EXCEPT !.made = TRUE, !.user_index = 0, !.user_min = 0,
                                  !.user_max = 1, !.width = Width,
                                  !.hide_cursor = hide_cursor]).bar
    /\ cp' = [Idle EXCEPT !.pc = "with"]
    /\ cur' = Op("catch_download_progress", <<>>, NoPath, None, "running")
    /\ nops' = nops + 1
    /\ UNCHANGED <<src, is_windows, mv, web, fetched, download_cache, tree, cache, dstdir, calls,
                   copied, wr>>

\* the body is left, by its end ("ok") or by an exception: finally end()
WithExit(exc) ==
    /\ cp.pc = "with"
    /\ bar' = end(bar)
    /\ cp' = Idle
    /\ cur' = [Op("catch_download_progress", <<>>, NoPath, None, exc)
                EXCEPT !.ended = bar.is_ended, !.entries = bar.stream.newlines]
    /\ UNCHANGED <<src, is_windows, mv, web, fetched, download_cache, tree, cache, dstdir, calls,
                   copied, nops, wr>>

BodyExceptions == {"ok", "URLError", "ZeroDivisionError"}

ProgressNext ==
    \/ \E lo \in 0..1, hi \in Values \ {0}, h \in BOOLEAN : NewProgressBar(lo, hi, h)
    \/ Start
    \/ Update
    \/ \E v \in Values, n \in Maximums : SetProgress(v, n)
    \/ \E v \in Values, n \in Maximums : AddProgress(v, n)
    \/ \E v \in Values : SetMaxValue(v)
    \/ \E v \in Values : SetMinValue(v)
    \/ End
    \/ \E h \in BOOLEAN : CatchDownloadProgress(h)
    \/ \E e \in BodyExceptions : WithExit(e)

\* DownloadProgressBar.byte_to_MB = 9.5367e-7: a positive factor, scaled to a
\* whole number so that the values stay integers
byte_to_MB == 2

\* show_progress without the test of total_size
show_progress_always_sets(b, block_number, block_size, total_size) ==
    set_progress(b, block_number * block_size * byte_to_MB, <<total_size * byte_to_MB>>)

\* DownloadProgressBar.show_progress(block_number, block_size, total_size)
show_progress(b, block_number, block_size, total_size) ==
    IF total_size < 1 THEN update(b)
    ELSE LET downloaded == block_number * block_size
         IN set_progress(b, downloaded * byte_to_MB, <<total_size * byte_to_MB>>)

\* the total_size download_file gives: -1 without Content-Length, else the
\* header's value
Totals == {-1, 0, MaxSize}

\* show_progress as the step_callback of a download
ShowProgress(block_number, block_size, total_size) ==
    /\ CanCall
    /\ bar' = show_progress(bar, block_number, block_size, total_size).bar
    /\ cur' = [Op("show_progress", <<>>, NoPath, None,
                   show_progress(bar, block_number, block_size, total_size).exc)
                EXCEPT !.ended = bar.is_ended, !.amount = block_number * block_size,
                       !.new_maximum = <<total_size>>]
    /\ nops' = nops + 1
    /\ UNCHANGED <<src, is_windows, mv, web, fetched, download_cache, tree, cache, dstdir, cp,
                   calls, copied, wr>>

\* a DownloadProgressBar, made directly or by catch_download_progress, that
\* gets the callbacks of a download; its minimum is below every total in MB
ShowProgressNext ==
    \/ \E lo \in 0..1, hi \in Values \ {0}, h \in BOOLEAN : NewProgressBar(lo, hi, h)
    \/ \E h \in BOOLEAN : CatchDownloadProgress(h)
    \/ \E n \in 0..MaxSize, t \in Totals : ShowProgress(n, BlockSize, t)
    \/ End
    \/ \E e \in BodyExceptions : WithExit(e)

\* the bar reads neither os.name nor the source files
InitProgress == Init /\ ~is_windows /\ Len(src[<<"data", "render.jpg">>].content) = MaxSize

\* one user of a ProgressBar, made directly or by catch_download_progress
SpecProgress == InitProgress /\ [][ProgressNext]_vars

\* one download reporting to a DownloadProgressBar
SpecShowProgress == InitProgress /\ [][ShowProgressNext]_vars

\* ------------------------------------------ cache_file, process by process
\* two processes share the cache directory; each step is one system call
WCall(w, f, unique_id) ==
    /\ wr[w].pc = "idle"
    /\ wr' = [wr EXCEPT ![w] = [WIdle EXCEPT !.pc = "exists", !.f = f, !.id = unique_id]]
    /\ UNCHANGED <<src, is_windows, mv, bar, web, fetched, download_cache, tree, cache, dstdir, cp, calls, cur, copied, nops>>

\* if not self.exists:
WExists(w) ==
    /\ wr[w].pc = "exists"
    /\ wr' = [wr EXCEPT ![w].pc = IF ~exists(cache) THEN "mkdir" ELSE "mkdtemp"]
    /\ UNCHANGED <<src, is_windows, mv, bar, web, fetched, download_cache, tree, cache, dstdir, cp, calls, cur, copied, nops>>

\* self._path.mkdir()
WMkdir(w) ==
    /\ wr[w].pc = "mkdir"
    /\ IF exists(cache)
       THEN /\ wr' = [wr EXCEPT ![w].pc = "raised", ![w].exc = "FileExistsError"]
            /\ UNCHANGED cache
       ELSE /\ cache' = mkdir(cache)
            /\ wr' = [wr EXCEPT ![w].pc = "mkdtemp"]
    /\ UNCHANGED <<src, is_windows, mv, bar, web, fetched, download_cache, tree, dstdir, cp, calls, cur, copied, nops>>

\* tempfile.mkdtemp(prefix=cache_prefix, dir=self._path)
WMkdtemp(w) ==
    /\ wr[w].pc = "mkdtemp"
    /\ IF ~exists(cache)
       THEN /\ wr' = [wr EXCEPT ![w].pc = "raised", ![w].exc = "FileNotFoundError"]
            /\ UNCHANGED cache
       ELSE \E suffix \in Suffixes, pos \in 1..(Len(cache.entries) + 1) :
              LET temp_folder == [prefix |-> hash_str(wr[w].id), suffix |-> suffix]
              IN /\ ~HasEntry(cache, temp_folder)
                 /\ cache' = mkdtemp(cache, hash_str(wr[w].id), suffix, pos)
                 /\ wr' = [wr EXCEPT ![w].pc = "copy2_open", ![w].temp_folder = <<temp_folder>>]
    /\ UNCHANGED <<src, is_windows, mv, bar, web, fetched, download_cache, tree, dstdir, cp, calls, cur, copied, nops>>

\* shutil.copy2(file_path, temp_folder)
WCopy2(w) ==
    /\ wr[w].pc \in {"copy2_open", "copy2_write", "copy2_copystat"}
    /\ LET file == SrcFile(wr[w].f)
           dir == wr[w].temp_folder[1]
       IN CASE wr[w].pc = "copy2_open" ->
                 /\ cache' = copy2_open(cache, file, dir)
                 /\ wr' = [wr EXCEPT ![w].pc = "copy2_write"]
            [] wr[w].pc = "copy2_write" ->
                 /\ cache' = copy2_write(cache, file, dir)
                 /\ wr' = [wr EXCEPT ![w].pc = "copy2_copystat"]
            [] wr[w].pc = "copy2_copystat" ->
                 /\ cache' = copy2_copystat(cache, file, dir)
                 /\ wr' = [wr EXCEPT ![w].pc = "check"]
    /\ UNCHANGED <<src, is_windows, mv, bar, web, fetched, download_cache, tree, dstdir, cp, calls, cur, copied, nops>>

\* cache_file = temp_folder / file_path.name; if not cache_file.exists(): raise
WCheck(w) ==
    /\ wr[w].pc = "check"
    /\ LET cache_file == <<wr[w].temp_folder[1], wr[w].f[2]>>
       IN IF FileAt(cache, cache_file) = NoFile
          THEN wr' = [wr EXCEPT ![w].pc = "raised", ![w].exc = "RuntimeError"]
          ELSE wr' = [wr EXCEPT ![w].pc = "done", ![w].exc = "ok", ![w].ret = cache_file]
    /\ UNCHANGED <<src, is_windows, mv, bar, web, fetched, download_cache, tree, cache, dstdir, cp, calls, cur, copied, nops>>

Started == \E w \in Writers : wr[w].pc # "idle"

RaceNext ==
    \/ \E f \in SrcFiles, u \in UserIds : ~Started /\ ~exists(cache) /\ CacheFile(f, u)
    \/ \E w \in Writers, f \in SrcFiles, u \in UserIds : WCall(w, f, u)
    \/ \E w \in Writers : WExists(w)
    \/ \E w \in Writers : WMkdir(w)
    \/ \E w \in Writers : WMkdtemp(w)
    \/ \E w \in Writers : WCopy2(w)
    \/ \E w \in Writers : WCheck(w)

\* cache_file reads neither os.name nor the size of the file: one platform,
\* render.jpg of MaxSize bytes and render2.jpg empty
InitRace == Init /\ ~is_windows /\ Len(src[<<"data", "render.jpg">>].content) = MaxSize

\* two processes calling cache_file on one cache directory, which an earlier
\* call may have created
SpecRace == InitRace /\ [][RaceNext]_vars

\* shutil.copy2 fails after it opened the destination (the disk is full, the
\* process is killed): cache_file is left with the entry as it is
WAbort(w) ==
    /\ wr[w].pc \in {"copy2_write", "copy2_copystat"}
    /\ wr' = [wr EXCEPT ![w].pc = "raised", ![w].exc = "OSError"]
    /\ UNCHANGED <<src, is_windows, mv, bar, web, fetched, download_cache, tree, cache, dstdir,
                   cp, calls, cur, copied, nops>>

PartialNext ==
    \/ \E w \in Writers, f \in SrcFiles, u \in UserIds : WCall(w, f, u)
    \/ \E w \in Writers : WExists(w)
    \/ \E w \in Writers : WMkdir(w)
    \/ \E w \in Writers : WMkdtemp(w)
    \/ \E w \in Writers : WCopy2(w)
    \/ \E w \in Writers : WCheck(w)
    \/ \E w \in Writers : WAbort(w)
    \/ \E u \in UserIds : GetFileCache(u)

\* two processes calling cache_file, a store that may fail midway, and a
\* process that looks identifiers up at any moment
SpecPartial == InitRace /\ [][PartialNext]_vars

\* ------------------------------- readers while the environment deletes
\* get_file_cache, alone or from copyfile(use_cache=True), one system call at
\* a time.  Path.glob is a directory test followed by a scandir.

\* get_file_cache returns value: to the user, or to copyfile at line 232
LookupReturns(value) ==
    IF cur.op = "get_file_cache"
    THEN /\ cur' = [cur EXCEPT !.ret = value, !.exc = "ok"]
         /\ cp' = Idle
    ELSE IF value = None
    THEN /\ cur' = [cur EXCEPT !.exc =
                       cache_file_call({"file_path", "unique_id", "copy_function"})]
         /\ cp' = Idle
    ELSE /\ cur' = [cur EXCEPT !.hit = TRUE]
         /\ cp' = [cp EXCEPT !.pc = "resolve", !.src_file = value]

RGetFileCache(f) ==
    /\ cp.pc = "idle"
    /\ nops < MaxCopyOps
    /\ nops' = nops + 1
    /\ calls' = <<>>
    /\ cur' = [Op("get_file_cache", hash_file(f), f, None, "running")
                EXCEPT !.entries = Len(cache.entries)]
    /\ cp' = [Idle EXCEPT !.pc = "exists"]
    /\ UNCHANGED <<src, is_windows, mv, bar, web, fetched, download_cache, tree, cache, dstdir, copied, wr>>

RCopyfile(f, target_path, chunk_size) ==
    /\ cp.pc = "idle"
    /\ nops < MaxCopyOps
    /\ nops' = nops + 1
    /\ calls' = <<>>
    /\ cur' = [Op("copyfile", hash_file(f), f, None, "running")
                EXCEPT !.target_path = target_path, !.chunk_size = chunk_size,
                       !.use_cache = TRUE, !.entries = Len(cache.entries)]
    /\ cp' = [Idle EXCEPT !.pc = "exists"]
    /\ UNCHANGED <<src, is_windows, mv, bar, web, fetched, download_cache, tree, cache, dstdir, copied, wr>>

\* if not self.exists: return None
RExists ==
    /\ cp.pc = "exists"
    /\ IF ~exists(cache) THEN LookupReturns(None)
       ELSE cp' = [cp EXCEPT !.pc = "glob_is_dir"] /\ UNCHANGED cur
    /\ UNCHANGED <<src, is_windows, mv, bar, web, fetched, download_cache, tree, cache, dstdir, calls, copied, nops, wr>>

\* self._path.glob(prefix*): no directory, no match
RGlobIsDir ==
    /\ cp.pc = "glob_is_dir"
    /\ IF ~exists(cache) THEN LookupReturns(None)
       ELSE cp' = [cp EXCEPT !.pc = "glob_scandir"] /\ UNCHANGED cur
    /\ UNCHANGED <<src, is_windows, mv, bar, web, fetched, download_cache, tree, cache, dstdir, calls, copied, nops, wr>>

\* self._path.glob(prefix*): the scandir; tempfolder[0] if tempfolder else None
RGlobScandir ==
    /\ cp.pc = "glob_scandir"
    /\ IF ~exists(cache) THEN Raises("FileNotFoundError")
       ELSE LET tempfolder == Matches(cache, hash_str(cur.id))
            IN IF tempfolder = <<>> THEN LookupReturns(None)
               ELSE /\ cp' = [cp EXCEPT !.pc = "files_is_dir",
                                        !.tempfolder = <<tempfolder[1].name>>]
                    /\ UNCHANGED cur
    /\ UNCHANGED <<src, is_windows, mv, bar, web, fetched, download_cache, tree, cache, dstdir, calls, copied, nops, wr>>

\* tempfolder.glob("*"): no directory, no file
RFilesIsDir ==
    /\ cp.pc = "files_is_dir"
    /\ IF ~HasEntry(cache, cp.tempfolder[1]) THEN LookupReturns(None)
       ELSE cp' = [cp EXCEPT !.pc = "files_scandir"] /\ UNCHANGED cur
    /\ UNCHANGED <<src, is_windows, mv, bar, web, fetched, download_cache, tree, cache, dstdir, calls, copied, nops, wr>>

\* tempfolder.glob("*"): the scandir; return cache_file[0], or None
RFilesScandir ==
    /\ cp.pc = "files_scandir"
    /\ IF ~HasEntry(cache, cp.tempfolder[1]) THEN Raises("FileNotFoundError")
       ELSE LET cache_file == cache.entries[EntryIndex(cache, cp.tempfolder[1])].files
            IN IF cache_file = <<>> THEN LookupReturns(None)
               ELSE LookupReturns(<<cp.tempfolder[1], cache_file[1].name>>)
    /\ UNCHANGED <<src, is_windows, mv, bar, web, fetched, download_cache, tree, cache, dstdir, calls, copied, nops, wr>>

\* target_path / src_file.name for a directory; an existing target raises
RResolve ==
    /\ cp.pc = "resolve"
    /\ LET target == IF cur.target_path = DstDir THEN cp.src_file[2] ELSE cur.target_path[2]
       IN IF dstdir[target] # NoFile
          THEN /\ cur' = [cur EXCEPT !.exc = "FileExistsError", !.target = target,
                                     !.dst_before = dstdir[target]]
               /\ cp' = Idle
          ELSE /\ cur' = [cur EXCEPT !.target = target]
               /\ cp' = [cp EXCEPT !.pc = "stat", !.target = target]
    /\ UNCHANGED <<src, is_windows, mv, bar, web, fetched, download_cache, tree, cache, dstdir, calls, copied, nops, wr>>

\* file_size = os.stat(src_file).st_size
RStat ==
    /\ cp.pc = "stat"
    /\ IF FileAt(cache, cp.src_file) = NoFile THEN Raises("FileNotFoundError")
       ELSE /\ cp' = [cp EXCEPT !.pc = "open",
                                !.file_size = Len(FileAt(cache, cp.src_file).content)]
            /\ UNCHANGED cur
    /\ UNCHANGED <<src, is_windows, mv, bar, web, fetched, download_cache, tree, cache, dstdir, calls, copied, nops, wr>>

\* open(src_file, "rb"), open(target_file, "wb"); the descriptor keeps the
\* bytes of a file unlinked afterwards
ROpen ==
    /\ cp.pc = "open"
    /\ IF FileAt(cache, cp.src_file) = NoFile
       THEN Raises("FileNotFoundError") /\ UNCHANGED dstdir
       ELSE /\ dstdir' = [dstdir EXCEPT ![cp.target] =
                             [name |-> cp.target, content |-> <<>>, meta |-> -1]]
            /\ cp' = [cp EXCEPT !.pc = "loop",
                                !.fsrc = FileAt(cache, cp.src_file).content,
                                !.src_meta = FileAt(cache, cp.src_file).meta,
                                !.length = engine_length(is_windows, cp.file_size,
                                                         cur.chunk_size)]
            /\ UNCHANGED cur
    /\ UNCHANGED <<src, is_windows, mv, bar, web, fetched, download_cache, tree, cache, calls, copied, nops, wr>>

\* the environment, while a call is running
ConcurrentDeleteRoot ==
    /\ cp.pc # "idle"
    /\ exists(cache)
    /\ cache' = rmtree(cache)
    /\ cur' = [cur EXCEPT !.deleted = TRUE]
    /\ UNCHANGED <<src, is_windows, mv, bar, web, fetched, download_cache, tree, dstdir, cp, calls, copied, nops, wr>>

ConcurrentDeleteEntries ==
    /\ cp.pc # "idle"
    /\ cache.entries # <<>>
    /\ cache' = [cache EXCEPT !.entries = <<>>]
    /\ cur' = [cur EXCEPT !.deleted = TRUE]
    /\ UNCHANGED <<src, is_windows, mv, bar, web, fetched, download_cache, tree, dstdir, cp, calls, copied, nops, wr>>

ConcurrentWipeFiles ==
    /\ cp.pc # "idle"
    /\ \E i \in 1..Len(cache.entries) : cache.entries[i].files # <<>>
    /\ cache' = [cache EXCEPT !.entries =
                    [i \in 1..Len(@) |-> [@[i] EXCEPT !.files = <<>>]]]
    /\ cur' = [cur EXCEPT !.deleted = TRUE]
    /\ UNCHANGED <<src, is_windows, mv, bar, web, fetched, download_cache, tree, dstdir, cp, calls, copied, nops, wr>>

ReaderNext ==
    \/ \E f \in SrcFiles : StoreSource(f)
    \/ \E f \in SrcFiles : RGetFileCache(f)
    \/ \E f \in SrcFiles, t \in Targets, c \in 1..MaxChunk : RCopyfile(f, t, c)
    \/ RExists
    \/ RGlobIsDir
    \/ RGlobScandir
    \/ RFilesIsDir
    \/ RFilesScandir
    \/ RResolve
    \/ RStat
    \/ ROpen
    \/ CopyChunk
    \/ CopyStat
    \/ ConcurrentDeleteRoot
    \/ ConcurrentDeleteEntries
    \/ ConcurrentWipeFiles

\* one reader of _COPYING_CACHE and the environment wiping the temporary
\* location under it
SpecReader == Init /\ [][ReaderNext]_vars

CacheNext ==
    \/ \E f \in SrcFiles, u \in UserIds : CacheFile(f, u)
    \/ \E u \in UserIds : GetFileCache(u)
    \/ Clear
    \/ ExternalDeleteRoot
    \/ ExternalWipeFiles
    \/ ExternalDeleteEntries

\* sequential callers of one FilesCache, and the environment
Spec == Init /\ [][CacheNext]_vars

SequentialNext ==
    \/ \E f \in SrcFiles, u \in UserIds : CacheFile(f, u)
    \/ \E u \in UserIds : GetFileCache(u)
    \/ Clear

\* sequential callers of one FilesCache that nothing else touches
SpecSequential == Init /\ [][SequentialNext]_vars

\* ================================================================== claims
Size(f) == Len(src[f].content)

\* the first entry directory of the listing whose name starts with the digest
FirstMatch(c, unique_id) ==
    CHOOSE i \in 1..Len(c.entries) :
        /\ c.entries[i].name.prefix = hash_str(unique_id)
        /\ \A j \in 1..(i - 1) : c.entries[j].name.prefix # hash_str(unique_id)

AfterStore == cur.op = "get_file_cache" /\ cur.prev.op = "cache_file" /\ cur.prev.id = cur.id

\* C1 as stated: cache_file(F, U) followed at once by get_file_cache(U) returns
\* a path, not None, to a file whose bytes are those of F, whatever the cache
\* held before the store.
C1_RoundTripAnyState ==
    AfterStore =>
        /\ cur.ret # None
        /\ FileAt(cache, cur.ret) # NoFile
        /\ FileAt(cache, cur.ret).content = src[cur.prev.f].content

\* C1 amended: the same, provided the cache held no entry directory for U's
\* digest when cache_file was called.
C1_RoundTrip ==
    (AfterStore /\ ~cur.prev.had_match) =>
        /\ cur.ret # None
        /\ FileAt(cache, cur.ret) # NoFile
        /\ FileAt(cache, cur.ret).content = src[cur.prev.f].content

\* a store next to an entry of another key, of a file that is not empty, looked up
C1_Witness ==
    /\ AfterStore
    /\ ~cur.prev.had_match
    /\ Len(cache.entries) > 1
    /\ cache.entries[1].name.prefix # hash_str(cur.id)
    /\ src[cur.prev.f].content # <<>>
    /\ cur.ret # None

\* C7: after clear() every lookup is None, is_empty is True and exists is False;
\* clear() raises nothing, also when there is no cache root.
C7_MissAfterClear ==
    /\ cur.op = "clear" =>
         /\ cur.exc = "ok"
         /\ \A u \in AllIds : get_file_cache(cache, u) = None
         /\ is_empty(cache)
         /\ ~exists(cache)
    /\ (cur.op = "get_file_cache" /\ cur.prev.op = "clear") => cur.ret = None

\* a lookup after the clear of a cache that held an entry for that identifier
C7_Witness ==
    /\ cur.op = "get_file_cache"
    /\ cur.prev.op = "clear"
    /\ cur.prev.entries > 0
    /\ cur.ret = None

\* C8: get_file_cache raises nothing; it returns None when the root does not
\* exist, when no entry directory has the digest prefix and when the first one
\* that has it is empty, and otherwise a path to a file inside that directory.
C8_LookupAbsence ==
    cur.op = "get_file_cache" =>
        /\ cur.exc = "ok"
        /\ LET matched == \E i \in 1..Len(cache.entries) :
                              cache.entries[i].name.prefix = hash_str(cur.id)
               absent == \/ ~cache.exists
                         \/ ~matched
                         \/ cache.entries[FirstMatch(cache, cur.id)].files = <<>>
           IN /\ absent => cur.ret = None
              /\ ~absent =>
                   /\ cur.ret # None
                   /\ cur.ret[1] = cache.entries[FirstMatch(cache, cur.id)].name
                   /\ \E k \in 1..Len(cache.entries[FirstMatch(cache, cur.id)].files) :
                        cache.entries[FirstMatch(cache, cur.id)].files[k].name = cur.ret[2]

\* the temporary location wiped after a store: the lookup is a miss
C8_Witness ==
    /\ cur.op = "get_file_cache"
    /\ cur.prev.op = "external"
    /\ cur.prev.entries > 0
    /\ ~exists(cache)
    /\ cur.ret = None

\* C9: cache_file(F, U) on an empty cache returns a path P; right afterwards
\* is_empty is False and get_file_cache(U) is P.
C9_StoreOnEmpty ==
    /\ (cur.op = "cache_file" /\ cur.was_empty) =>
         /\ cur.exc = "ok"
         /\ cur.ret # None
         /\ ~is_empty(cache)
         /\ get_file_cache(cache, cur.id) = cur.ret
    /\ (AfterStore /\ cur.prev.was_empty) =>
         /\ ~is_empty(cache)
         /\ cur.ret = cur.prev.ret

\* a store on a cache emptied before, then the lookup
C9_Witness ==
    /\ AfterStore
    /\ cur.prev.was_empty
    /\ nops > 1
    /\ Len(cache.entries) = 1
    /\ cur.ret = cur.prev.ret
    /\ cur.ret # None

Ceil(a, b) == (a + b - 1) \div b

Ended == cur.op = "copyfile" /\ cp.pc = "idle"

Increasing(s) == \A k \in 1..(Len(s) - 1) : s[k][1] < s[k + 1][1]

\* C2: copyfile to a destination whose resolved final path exists raises
\* FileExistsError and leaves that file as it was, with use_cache False, on a
\* cache hit and on a cache miss.
C2_DestinationCollision ==
    (Ended /\ cur.dst_before # NoFile) =>
        /\ cur.exc = "FileExistsError"
        /\ dstdir[cur.target] = cur.dst_before

\* C3: copyfile(use_cache=True) of an uncached source of size S with chunk size
\* c succeeds with 2*ceil(S/c) callbacks, each with total 2*S, the first pass
\* counting up to S and the second from S up to 2*S; the cache is then not empty.
C3_CacheMissDoubling ==
    (Ended /\ cur.use_cache /\ ~cur.hit /\ cur.dst_before = NoFile) =>
        LET S == Size(cur.f)
            n == Ceil(S, cur.chunk_size)
        IN /\ cur.exc = "ok"
           /\ Len(calls) = 2 * n
           /\ \A k \in 1..Len(calls) : calls[k][3] = 2 * S
           /\ \A k \in 1..Len(calls) :
                calls[k][1] = IF k <= n THEN Min(k * cur.chunk_size, S)
                              ELSE S + Min((k - n) * cur.chunk_size, S)
           /\ ~is_empty(cache)

\* C4: a copyfile(use_cache=True) of F that follows a copyfile(use_cache=True)
\* of the same unchanged F, to another destination, is a cache hit: one pass of
\* ceil(S/c) callbacks with total S and last cumulative value S, and no new
\* cache entry.
C4_HitAfterMiss ==
    (Ended /\ cur.use_cache /\ cur.again /\ cur.dst_before = NoFile) =>
        LET S == Size(cur.f)
        IN /\ cur.hit
           /\ cur.exc = "ok"
           /\ Len(calls) = Ceil(S, cur.chunk_size)
           /\ \A k \in 1..Len(calls) : calls[k][3] = S
           /\ (S > 0 => calls # <<>> /\ calls[Len(calls)][1] = S)
           /\ Len(cache.entries) = cur.entries

Uncached ==
    /\ cur.op = "copyfile"
    /\ ~cur.use_cache
    /\ cur.dst_before = NoFile
    /\ Size(cur.f) > 0
    /\ cur.chunk_size <= Size(cur.f)

\* C5: copyfile(use_cache=False) of a source of size S > 0 with chunk size
\* c <= S calls the callback ceil(S/c) times, the k-th time with
\* (min(k*c, S), c, S), and the destination then holds the S source bytes.
C5_UncachedChunkedCopy ==
    Uncached =>
        LET S == Size(cur.f)
            c == cur.chunk_size
        IN /\ Len(calls) <= Ceil(S, c)
           /\ \A k \in 1..Len(calls) : calls[k] = <<Min(k * c, S), c, S>>
           /\ cp.pc = "idle" =>
                /\ cur.exc = "ok"
                /\ Len(calls) = Ceil(S, c)
                /\ dstdir[cur.target].content = src[cur.f].content

\* a finished copy in several chunks, the last one short
C5_Witness ==
    /\ Uncached
    /\ cp.pc = "idle"
    /\ cur.exc = "ok"
    /\ Size(cur.f) % cur.chunk_size # 0
    /\ Len(calls) > 1
    /\ dstdir[cur.target].content = src[cur.f].content

\* C6: within one copyfile the cumulative values the callback receives are
\* strictly increasing, and the last one is the number of bytes copied: S for
\* a single pass, 2*S for a cache miss.
C6_ProgressOrdering ==
    /\ cur.op = "copyfile" => Increasing(calls)
    /\ (Ended /\ cur.dst_before = NoFile /\ Size(cur.f) > 0) =>
         /\ calls # <<>>
         /\ calls[Len(calls)][1] =
              IF cur.use_cache /\ ~cur.hit THEN 2 * Size(cur.f) ELSE Size(cur.f)

AllReturned == \A w \in Writers : wr[w].pc \in {"done", "raised"}

\* C10: two processes running cache_file at once with different unique_ids, in
\* any interleaving and from any cache state, both succeed, and each
\* identifier's lookup then returns the file stored for it.
C10_WritersNeverConflict ==
    (AllReturned /\ wr[1].id # wr[2].id) =>
        \A w \in Writers :
            /\ wr[w].exc = "ok"
            /\ get_file_cache(cache, wr[w].id) = wr[w].ret

\* C11: two interleaved cache_file calls for one unique_id both succeed and
\* leave two entry directories with that digest prefix; a later get_file_cache
\* of the identifier warns and returns the file of the first matching directory.
C11_SameKeyRace ==
    (AllReturned /\ wr[1].id = wr[2].id) =>
        /\ \A w \in Writers : wr[w].exc = "ok"
        /\ Len(Matches(cache, hash_str(wr[1].id))) >= 2
        /\ get_file_cache_warns(cache, wr[1].id)
        /\ get_file_cache(cache, wr[1].id) # None
        /\ get_file_cache(cache, wr[1].id)[1] = cache.entries[FirstMatch(cache, wr[1].id)].name

\* C12: a get_file_cache or a copyfile(use_cache=True) during which the
\* environment deletes the cache root, an entry directory or a cached file
\* raises no error.
C12_ReadersTolerateDeletion ==
    (cur.op \in {"get_file_cache", "copyfile"} /\ cur.deleted /\ cp.pc = "idle"
        /\ cur.dst_before = NoFile) =>
        cur.exc = "ok"

NoCacheStep ==
    /\ cur'.op \in {"copyfile", "download_file"}
    /\ ~cur'.use_cache
    /\ (nops' # nops \/ cp.pc # "idle")

\* C13: no step of a copyfile(use_cache=False) or of a
\* download_file(use_cache=False) takes anything from its cache or changes
\* it: emptiness and entries are after the call what they were before.
C13_NoCacheUntouched ==
    [][NoCacheStep =>
          /\ cache' = cache
          /\ download_cache' = download_cache
          /\ ~cur'.hit]_vars

\* a download and a copy with use_cache=False that ended well next to a cache
\* that holds an entry
C13_Witness ==
    /\ cur.op \in {"copyfile", "download_file"}
    /\ ~cur.use_cache
    /\ cur.getenv = "unset"
    /\ cp.pc = "idle"
    /\ cur.exc = "ok"
    /\ dstdir[cur.target].content # <<>>
    /\ ~is_empty(IF cur.op = "copyfile" THEN cache ELSE download_cache)

\* the entry directories stored for path f with the size and modification
\* time f has now
StoredFor(f) ==
    {i \in 1..Len(cache.entries) :
        cache.entries[i].name.prefix =
            hash_str(sha256_hexdigest(<<f[1], f[2], ToString(Len(src[f].content)),
                                        ToString(src[f].mtime)>>))}

\* C14: copyfile(use_cache=True) is a hit only if an entry was stored for the
\* same path with the same size and modification time; another path, or the
\* path rewritten after it was cached, is a miss, and the destination of a hit
\* gets the bytes the source has now.
C14_KeyedBySourceIdentity ==
    (cur.op = "copyfile" /\ cur.use_cache) =>
        /\ cur.hit => StoredFor(cur.f) # {}
        /\ StoredFor(cur.f) = {} => ~cur.hit
        /\ (cur.hit /\ cp.pc = "idle" /\ cur.exc = "ok") =>
              dstdir[cur.target].content = src[cur.f].content

\* a source rewritten after it was cached, other bytes of the same size: the
\* copy is a miss although an entry of that path is in the cache
C14_Witness ==
    /\ cur.op = "copyfile"
    /\ cur.use_cache
    /\ ~cur.hit
    /\ src[cur.f].mtime # Tag(cur.f)
    /\ src[cur.f].content # <<>>
    /\ \E i \in 1..Len(cache.entries) :
          /\ cache.entries[i].files # <<>>
          /\ cache.entries[i].files[1].name = cur.f[2]
          /\ cache.entries[i].files[1].content # src[cur.f].content

\* where the call has to write: the source's name under a directory, else the
\* path given
Resolved == IF cur.target_path = DstDir THEN cur.f[2] ELSE cur.target_path[2]

\* C15: copyfile to an existing directory writes and returns
\* directory/<source file name>, also when the bytes come from the cache; to a
\* path that does not exist it writes exactly that path.
C15_DirectoryResolution ==
    (Ended /\ cur.dst_before = NoFile) =>
        /\ cur.target = Resolved
        /\ cur.exc = "ok"
        /\ cur.ret = <<DstDir[1], Resolved>>
        /\ dstdir[Resolved].name = Resolved
        /\ dstdir[Resolved].content = src[cur.f].content

C17_EntryInvariant ==
    /\ \A i \in 1..Len(cache.entries) :
          /\ Len(cache.entries[i].files) = 1
          /\ \E u \in UserIds : cache.entries[i].name.prefix = hash_str(u)
          /\ \E f \in SrcFiles :
                /\ cache.entries[i].files[1].name = f[2]
                /\ cache.entries[i].files[1].content = src[f].content
    /\ ~exists(cache) => cache.entries = <<>>
    /\ cur.op = "cache_file" =>
          /\ cur.exc = "ok"
          /\ HasEntry(cache, cur.ret[1])
          /\ cur.ret[1].prefix = hash_str(cur.id)
          /\ cache.entries[EntryIndex(cache, cur.ret[1])].files =
                <<SrcFile(cur.f)>>

\* two entries, of two identifiers and two files, after a store
C17_Witness ==
    /\ cur.op = "cache_file"
    /\ Len(cache.entries) = 2
    /\ cache.entries[1].name.prefix # cache.entries[2].name.prefix
    /\ cache.entries[1].files[1].name # cache.entries[2].files[1].name

Gone == \A q \in TreePaths : tree[q].kind = "none"

\* C18: FilesCache.clear() of a cache root that holds an entry whose removal
\* is denied recovers and goes on: it raises nothing and the root is gone
\* when it returns.
C18_ClearToleratesDenied ==
    cur.op = "clear" => (cur.exc = "ok" /\ Gone)

\* C19: rmtree(path) of a tree with read-only files or directories at any
\* depth resets the permissions, retries, and returns with the whole tree
\* removed, the root included.
C19_RmtreeRecovers ==
    (cur.op = "rmtree" /\ ~cur.ignore_errors) => (cur.exc = "ok" /\ Gone)

\* a step of a download_file call
DownloadStep == cur'.op = "download_file" /\ (nops' # nops \/ cp.pc = "download")

\* what a call that does not use the cache does in a step: no hit, no store,
\* and the bytes of a finished download are those the server sent
AsWithoutCache ==
    /\ ~cur'.hit
    /\ download_cache' = download_cache
    /\ (cp'.pc = "idle" /\ cur'.exc = "ok") =>
          dstdir'[cur'.target].content = Body(cur'.id)

\* C20 as stated: when PYTHONNING_DISABLE_DOWNLOAD_CACHE is set, download_file
\* behaves as with use_cache=False whatever the caller passed.
C20_KillSwitchWhenSet ==
    [][(DownloadStep /\ cur'.getenv # "unset") => AsWithoutCache]_vars

\* C20 amended: when PYTHONNING_DISABLE_DOWNLOAD_CACHE is set to a value that
\* is not the empty string, download_file behaves as with use_cache=False
\* whatever the caller passed: no read of the download cache, no store.
C20_KillSwitch ==
    [][(DownloadStep /\ cur'.getenv # "unset" /\ cur'.getenv # "") => AsWithoutCache]_vars

\* the variable set, use_cache=True passed and the url in the cache: the file
\* is fetched all the same
C20_Witness ==
    /\ cur.op = "download_file"
    /\ cur.getenv = "1"
    /\ cur.use_cache
    /\ get_file_cache(download_cache, cur.id) # None
    /\ cp.pc = "idle"
    /\ cur.exc = "ok"
    /\ ~cur.hit
    /\ Len(calls) > 1
    /\ dstdir[cur.target].content = Body(cur.id)

\* a download_file(use_cache=True) that returned, the kill switch unset
CachedDownload ==
    /\ cur.op = "download_file"
    /\ cur.use_cache
    /\ cur.getenv = "unset"
    /\ cp.pc = "idle"
    /\ cur.exc = "ok"

\* C21: a successful download_file(url, use_cache=True) on a cache with no
\* entry for url opens the url and stores the target file under the url, the
\* cache then not empty and holding one entry for url; a later one is a hit
\* that copies the cached file without opening the url, and the target gets
\* the bytes of the download that stored the entry, whatever the server
\* sends by then.
C21_DownloadCacheSequence ==
    CachedDownload =>
        IF cur.hit
        THEN /\ ~cur.opened
             /\ fetched[cur.id] # None
             /\ dstdir[cur.target].content = fetched[cur.id][1]
             /\ Len(download_cache.entries) = cur.entries
        ELSE /\ cur.opened
             /\ ~is_empty(download_cache)
             /\ Len(Matches(download_cache, hash_str(cur.id))) = 1
             /\ Len(download_cache.entries) = cur.entries + 1
             /\ get_file_cache(download_cache, cur.id) # None
             /\ FileAt(download_cache, get_file_cache(download_cache, cur.id)).content =
                   dstdir[cur.target].content
             /\ fetched[cur.id] = <<dstdir[cur.target].content>>

\* a hit after the server changed what it sends: the target gets the bytes
\* downloaded first
C21_Witness ==
    /\ CachedDownload
    /\ cur.hit
    /\ web[cur.id] = 1
    /\ dstdir[cur.target].content = fetched[cur.id][1]
    /\ dstdir[cur.target].content # Body(cur.id)
    /\ dstdir[cur.target].content # <<>>

\* a download_file with a step_callback that got an answer from the server
Streaming == cur.op = "download_file" /\ cur.step_callback /\ cur.opened /\ cur.exc # "URLError"

\* C22: a network download with a step_callback calls it with block_number 0
\* before any read, then once after each block written with block_number one
\* higher, always with the same block_size and total_size, total_size being
\* the Content-Length or -1 without the header; the calls are one more than
\* the blocks written.
C22_ProgressStream ==
    Streaming =>
        /\ calls # <<>>
        /\ \A k \in 1..Len(calls) :
              /\ calls[k][1] = k - 1
              /\ calls[k][2] = BlockSize
              /\ calls[k][3] = calls[1][3]
        /\ ~HasContentLength(cur.id) => calls[1][3] = -1
        /\ HasContentLength(cur.id) => calls[1][3] >= 0
        /\ Len(calls) = 1 + Ceil(Len(dstdir[cur.target].content), BlockSize)
        /\ (cp.pc = "idle" /\ cur.exc = "ok" /\ HasContentLength(cur.id)) =>
              calls[1][3] = Len(dstdir[cur.target].content)

\* a finished download in several blocks, the last one short, and one without
\* Content-Length
C22_Witness ==
    /\ Streaming
    /\ cp.pc = "idle"
    /\ cur.exc = "ok"
    /\ \/ Len(calls) > 2 /\ Len(dstdir[cur.target].content) % BlockSize # 0
       \/ calls[1][3] = -1 /\ Len(calls) = 2

\* C23: copyfile of an empty file with a callback calls it exactly once, with
\* the cumulative value 0, and leaves an empty destination file.
C23_EmptySourceConvention ==
    (Ended /\ Size(cur.f) = 0 /\ ~cur.use_cache /\ cur.dst_before = NoFile) =>
        /\ cur.exc = "ok"
        /\ Len(calls) = 1
        /\ calls[1][1] = 0
        /\ dstdir[cur.target].content = <<>>

Redraws == {"update", "start", "set_progress", "add_progress", "max_value", "min_value"}

\* C24: once end() was called, no update(), start(), set_progress(),
\* add_progress() or assignment to max_value or min_value writes anything to
\* the stream.
C24_EndIsFinal ==
    [][(bar.is_ended /\ nops' # nops /\ cur'.op \in Redraws) =>
          bar'.stream = bar.stream]_vars

\* a bar that drew its progress, was ended, and then got set_progress
C24_Witness ==
    /\ cur.op = "set_progress"
    /\ cur.ended
    /\ bar.is_ended
    /\ bar.stream.texts > 0
    /\ bar.stream.line[1] = "bar"
    /\ bar.user_index > 0

\* C25: after any sequence of set_progress, add_progress and max_value and
\* min_value assignments the value of a ProgressBar is at most its maximum,
\* and n calls in a row of add_progress(a, M) from the value 0 leave the
\* value min(n * a, M).
C25_BoundedAccumulates ==
    /\ cur.op \in {"set_progress", "add_progress", "max_value", "min_value"} =>
          bar.user_index <= bar.user_max
    /\ (cur.op = "add_progress" /\ cur.run > 0 /\ cur.new_maximum # None) =>
          bar.user_index = Min(cur.run * cur.amount, cur.new_maximum[1])

\* C26: every way out of the body of `with catch_download_progress()`, its end
\* or an exception, calls end() once: the bar is then ended, the cursor of
\* the stream is visible again, and the exception of the body is the one the
\* caller gets.
C26_AlwaysCleansUp ==
    (cur.op = "catch_download_progress" /\ cp.pc = "idle") =>
        /\ bar.is_ended
        /\ cur.exc \in BodyExceptions
        /\ ~cur.ended => bar.stream.newlines = 1
        /\ cursor_shown(bar.stream.escapes)

\* where the bytes c are found in the two directories
Holders(c) ==
    {x \in {"src", "dst"} \X RelPaths :
        /\ mv[x[1]][x[2]].kind = "file"
        /\ mv[x[1]][x[2]].content = c}

\* the children of the source, in the order listed, when the call was made
Listed == children(mv.before.src, <<>>, cur.order)

Conflicts == {k \in 1..Len(Listed) : mv.before.dst[Listed[k]].kind # "none"}

Moved(q) ==
    \A p \in RelPaths : Under(q, p) => (mv.src[p] = Absent /\ mv.dst[p] = mv.before.src[p])

Untouched(q) ==
    \A p \in RelPaths :
        Under(q, p) => (mv.src[p] = mv.before.src[p] /\ mv.dst[p] = mv.before.dst[p])

\* C27: move_directory_content(exists_ok=False) raises FileExistsError at the
\* first source child whose name exists in the target, that entry and the
\* children listed after it left as they were; and whatever the arguments and
\* the outcome, every file of the source or the target is afterwards found
\* once, under one of them, with its bytes, a file of the target where it was.
C27_MoveNeverLoses ==
    cur.op = "move_directory_content" =>
        /\ \A x \in {"src", "dst"}, p \in RelPaths :
              mv.before[x][p].kind = "file" =>
                  Cardinality(Holders(mv.before[x][p].content)) = 1
        /\ \A p \in RelPaths :
              mv.before.dst[p].kind # "none" => mv.dst[p] = mv.before.dst[p]
        /\ ~cur.exists_ok =>
              IF Conflicts = {}
              THEN cur.exc = "ok" /\ \A k \in 1..Len(Listed) : Moved(Listed[k])
              ELSE LET first == CHOOSE k \in Conflicts : \A j \in Conflicts : k <= j
                   IN /\ cur.exc = "FileExistsError"
                      /\ \A k \in 1..Len(Listed) :
                            IF k < first THEN Moved(Listed[k]) ELSE Untouched(Listed[k])
        /\ cur.exists_ok => cur.exc \in {"ok", "NotADirectoryError"}

\* exists_ok=False: one child was moved, then the next one is a file that the
\* target has as well
C27_Witness ==
    /\ cur.op = "move_directory_content"
    /\ ~cur.exists_ok
    /\ cur.exc = "FileExistsError"
    /\ Len(Listed) = 2
    /\ Moved(Listed[1])
    /\ mv.before.src[Listed[2]].kind = "file"
    /\ mv.dst[Listed[2]].kind = "file"
    /\ mv.dst[Listed[2]].content # mv.src[Listed[2]].content

\* the paths that exist below the source directory
Below == {p \in RelPaths : mv.src[p].kind # "none"}

\* C28: copytree(src, dst, callback) calls the callback once for every file
\* and directory below src and never for src, each time with the number of
\* these paths as total and with an index higher than the time before; the
\* calls are as many as the total.
C28_CopytreeProgress ==
    cur.op = "copytree" =>
        /\ {calls[k][1] : k \in 1..Len(calls)} = Below
        /\ Len(calls) = Cardinality(Below)
        /\ \A k \in 1..Len(calls) : calls[k][3] = Cardinality(Below)
        /\ \A k \in 1..(Len(calls) - 1) : calls[k][2] < calls[k + 1][2]

\* a directory with a file and a sub-directory that holds files
C28_Witness ==
    /\ cur.op = "copytree"
    /\ Len(calls) = 4
    /\ calls[1][1] = <<"somedir">>
    /\ mv.src[<<"somedir", "file.py">>].kind = "file"
    /\ mv.copy = mv.src

\* C29: when the callback raises in its k-th call of a copyfile(use_cache=False),
\* the exception leaves copyfile, no callback follows and nothing is retried,
\* the files are closed, and the destination holds the first k chunks of the
\* source and not the source's metadata.
C29_AbortByCallback ==
    (cur.op = "copyfile" /\ ~cur.use_cache /\ cur.exc = "CallbackError") =>
        LET k == Len(calls)
            written == Min(k * engine_length(is_windows, Size(cur.f), cur.chunk_size),
                           Size(cur.f))
        IN /\ cp = Idle
           /\ k > 0
           /\ calls[k][1] = written
           /\ dstdir[cur.target].name = cur.target
           /\ dstdir[cur.target].content = SubSeq(src[cur.f].content, 1, written)
           /\ dstdir[cur.target].meta = -1
           /\ cur.ret = None

\* the callback raised in its second call, before the last chunk
C29_Witness ==
    /\ cur.op = "copyfile"
    /\ cur.exc = "CallbackError"
    /\ Len(calls) = 2
    /\ Len(dstdir[cur.target].content) = 2
    /\ Size(cur.f) = 3
    /\ dstdir[cur.target].meta = -1

\* C30: the file that get_file_cache returns as a hit holds all the bytes of
\* the source it was stored from, also when the lookup runs while cache_file
\* is still copying for that identifier, and after a store that failed midway.
C30_NoPartialHit ==
    [][(cur'.op = "get_file_cache" /\ cur' # cur /\ cur'.ret # None) =>
          \E w \in Writers :
              /\ wr[w].temp_folder = <<cur'.ret[1]>>
              /\ FileAt(cache, cur'.ret).content = src[wr[w].f].content]_vars

\* a step that is a whole copyfile(use_cache=True) call to a destination that
\* exists
ToExisting ==
    /\ cur'.op = "copyfile"
    /\ nops' # nops
    /\ cur'.use_cache
    /\ cur'.dst_before # NoFile

\* C31: a copyfile(use_cache=True) that fails with FileExistsError because the
\* resolved destination exists has not called the callback and leaves the
\* cache with exactly the entries it held, and the destination as it was; a
\* cached source whose destination exists is rejected that way.
C31_RejectedCopyNoSideEffects ==
    [][ToExisting =>
          /\ cur'.hit => cur'.exc = "FileExistsError"
          /\ cur'.exc = "FileExistsError" =>
                /\ calls' = <<>>
                /\ cache' = cache
                /\ dstdir' = dstdir
                /\ cp' = Idle]_vars

\* a cached source copied onto the file the destination directory holds
C31_Witness ==
    /\ cur.op = "copyfile"
    /\ cur.use_cache
    /\ cur.hit
    /\ cur.exc = "FileExistsError"
    /\ cur.dst_before = Existing
    /\ dstdir[cur.target] = Existing
    /\ calls = <<>>
    /\ Len(cache.entries) = cur.entries
    /\ src[cur.f].content # <<>>

\* C32: copyfile called without a callback completes successfully and leaves
\* the source's bytes in the destination with use_cache False, with use_cache
\* True on a cache hit and with use_cache True on a cache miss.
C32_CallbackOptional ==
    (Ended /\ cur.callback = "None" /\ cur.dst_before = NoFile) =>
        /\ cur.exc = "ok"
        /\ calls = <<>>
        /\ dstdir[cur.target].content = src[cur.f].content

\* C33: every successful copyfile, without the cache or on a hit (no copy
\* succeeds on a miss), ends with the destination carrying the metadata of the
\* original source file, and the destination has no metadata copied onto it
\* until all the bytes are written.
C33_MetadataLast ==
    cur.op = "copyfile" =>
        /\ cp.pc \in {"loop", "copystat"} => dstdir[cp.target].meta = -1
        /\ (cp.pc = "idle" /\ cur.exc = "ok") =>
              /\ dstdir[cur.target].meta = src[cur.f].mtime
              /\ dstdir[cur.target].content = src[cur.f].content

\* a hit copied in several chunks: the metadata came from the cached file
C33_Witness ==
    /\ Ended
    /\ cur.hit
    /\ cur.exc = "ok"
    /\ Len(calls) > 1
    /\ dstdir[cur.target].meta = src[cur.f].mtime
    /\ dstdir[cur.target].content = src[cur.f].content

\* C34: cache_file(F, U) leaves the result of get_file_cache(U2) as it was for
\* every identifier U2 whose digest is not U's, and the file get_file_cache(U)
\* returns is in an entry directory named by U's digest, never in one that was
\* stored under another digest.
C34_KeyIsolation ==
    [][/\ (cur'.op = "cache_file" /\ nops' # nops) =>
             \A u2 \in AllIds :
                 hash_str(u2) # hash_str(cur'.id) =>
                     get_file_cache(cache', u2) = get_file_cache(cache, u2)
       /\ (cur'.op = "get_file_cache" /\ cur'.ret # None) =>
             /\ cur'.ret[1].prefix = hash_str(cur'.id)
             /\ HasEntry(cache', cur'.ret[1])
             /\ FileAt(cache', cur'.ret) # NoFile]_vars

\* a lookup after the store of another identifier, whose entry directory is
\* listed first: the file returned is the one stored for the identifier asked
C34_Witness ==
    /\ cur.op = "get_file_cache"
    /\ cur.prev.op = "cache_file"
    /\ cur.prev.id # cur.id
    /\ Len(cache.entries) = 2
    /\ cache.entries[1].name.prefix = hash_str(cur.prev.id)
    /\ cache.entries[1].files[1].name # cache.entries[2].files[1].name
    /\ cur.ret # None
    /\ cur.ret[1] = cache.entries[2].name

\* C35: the download cache gets an entry for a url only from a download that
\* read the stream to its end; a download_file(use_cache=True) that fails
\* midway, by a network error or by step_callback raising, adds no entry;
\* the entry of a url holds the whole body, so a cache hit delivers it whole.
C35_OnlyCompleteCached ==
    /\ (cur.op = "download_file" /\ cur.exc \notin {"ok", "running"}) =>
          Len(download_cache.entries) = cur.entries
    /\ \A url \in Urls :
          get_file_cache(download_cache, url) # None =>
              FileAt(download_cache, get_file_cache(download_cache, url)).content = Body(url)
    /\ (cur.op = "download_file" /\ cur.hit /\ cur.exc = "ok") =>
          dstdir[cur.target].content = Body(cur.id)

\* C36: show_progress with total_size < 1 raises nothing, only redraws, and
\* leaves the values of the bar and its presentation as they were, the dots
\* of a bar that had no progress yet; with total_size >= 1 it sets the maximum
\* from total_size and the value to block_number * block_size, at most the
\* maximum, both in MB.
C36_ShowProgress ==
    [][(cur'.op = "show_progress" /\ nops' # nops) =>
          LET total_size == cur'.new_maximum[1]
              downloaded == cur'.amount
          IN IF total_size < 1
             THEN /\ cur'.exc = "ok"
                  /\ bar'.had_progress = bar.had_progress
                  /\ bar'.user_index = bar.user_index
                  /\ bar'.user_max = bar.user_max
                  /\ bar'.user_min = bar.user_min
                  /\ bar'.is_ended = bar.is_ended
                  /\ bar'.stream.newlines = bar.stream.newlines
                  /\ bar'.stream.texts = bar.stream.texts + (IF bar.is_ended THEN 0 ELSE 1)
                  /\ (~bar.is_ended /\ ~bar.had_progress) => bar'.stream.line[1] = "dots"
             ELSE /\ cur'.exc = "ok"
                  /\ bar'.had_progress
                  /\ bar'.user_max = total_size * byte_to_MB
                  /\ bar'.user_index = Min(downloaded, total_size) * byte_to_MB
                  /\ bar'.user_min = bar.user_min]_vars

\* the first tick with a total changes the maximum, and the last block counts
\* more bytes than the total: the value is the maximum and the bar is full
C36_Witness ==
    /\ cur.op = "show_progress"
    /\ cur.new_maximum = <<MaxSize>>
    /\ cur.amount > MaxSize
    /\ bar.user_max = MaxSize * byte_to_MB
    /\ bar.user_index = bar.user_max
    /\ bar.user_min = 0
    /\ bar.stream.line = <<"bar", Width, 0>>

\* a move_directory_content(exists_ok=True, recursive=True) that returned or
\* raised
MergeMove == cur.op = "move_directory_content" /\ cur.exists_ok /\ cur.recursive

\* every source file is in the target if its path was free there, and else
\* where it was, the file of the target untouched
FilesMerged ==
    \A p \in RelPaths :
        mv.before.src[p].kind = "file" =>
            IF mv.before.dst[p].kind = "none"
            THEN mv.src[p] = Absent /\ mv.dst[p] = mv.before.src[p]
            ELSE mv.src[p] = mv.before.src[p] /\ mv.dst[p] = mv.before.dst[p]

\* exists_ok=True, recursive=False: a directory of the source that the target
\* has is left with all it holds
DirsSkipped ==
    (cur.op = "move_directory_content" /\ cur.exists_ok /\ ~cur.recursive) =>
        \A q \in RelPaths :
            (Len(q) = 1 /\ mv.before.src[q].kind = "dir" /\ mv.before.dst[q].kind # "none") =>
                Untouched(q)

\* C37: move_directory_content(exists_ok=True, recursive=True) moves every
\* source file whose relative path does not exist under the target to that
\* path, and leaves in place, unmodified, every source file whose path exists
\* there; with recursive=False a source directory that exists in the target
\* is skipped entirely.
C37_RecursiveMerge ==
    /\ MergeMove => FilesMerged
    /\ DirsSkipped

\* a copyfile(use_cache=False) that ended well
Copied == Ended /\ ~cur.use_cache /\ cur.exc = "ok"

\* C38 as stated: for the same source and chunk_size the readinto-based
\* engine of Windows and the read-based engine call the callback the same
\* number of times with the same triples, also when chunk_size is larger than
\* the file: the calls of a copy are those the engine of the other platform
\* makes.
C38_SameStreamAnyChunk ==
    Copied =>
        /\ calls = copyfile_calls(is_windows, src[cur.f].content, cur.chunk_size)
        /\ calls = copyfile_calls(~is_windows, src[cur.f].content, cur.chunk_size)

\* C38 amended: the same, for a chunk_size that is at most the size of the
\* file, and for an empty file.
C38_SameStream ==
    (Copied /\ (cur.chunk_size <= Size(cur.f) \/ Size(cur.f) = 0)) =>
        /\ calls = copyfile_calls(is_windows, src[cur.f].content, cur.chunk_size)
        /\ calls = copyfile_calls(~is_windows, src[cur.f].content, cur.chunk_size)

\* a copy made on Windows in several chunks, the last one short, reports what
\* the read-based engine reports
C38_Witness ==
    /\ Copied
    /\ is_windows
    /\ cur.chunk_size < Size(cur.f)
    /\ Size(cur.f) % cur.chunk_size # 0
    /\ Len(calls) > 1
    /\ calls = copyfile_calls(FALSE, src[cur.f].content, cur.chunk_size)
====
